---------------------------- MODULE Spec2Model ----------------------------
(***************************************************************************)
(* Verification model of the e-learning authoring front end: the entity    *)
(* validators, the ValidationService that composes them, and the course    *)
(* transforms (transformCourseForBackend / transformCourseForExport).      *)
(*                                                                         *)
(* JavaScript values are modelled as tagged records                        *)
(*   [t |-> "undefined"], [t |-> "null"], [t |-> "boolean", v |-> b],      *)
(*   [t |-> "number", v |-> n], [t |-> "string", v |-> <<fragments>>],     *)
(*   [t |-> "array", v |-> <<values>>], [t |-> "object", v |-> record]     *)
(* A string is the sequence of its fragments; every string the code        *)
(* inspects (trim, includes, startsWith, a regular expression) is written  *)
(* one character per fragment.  A property holding undefined is the same   *)
(* object as one without the property.                                     *)
(***************************************************************************)
EXTENDS Integers, Sequences, FiniteSets, TLC

VARIABLES
    validators,   \* ValidationService.validators: the registered validator list
    mockErrors,   \* the errors an injected (test) validator emits
    now,          \* the value Date.now() returns
    calls,        \* the validateCourse invocations in flight or completed
    fieldCall,    \* the last validateField invocation
    tIn,          \* the course handed to a transform
    tOut,         \* what the transform returned
    tPc,          \* which transform has run
    ctx           \* the CourseProvider: its reducer state and the call in progress

vars == <<validators, mockErrors, now, calls, fieldCall, tIn, tOut, tPc, ctx>>

---------------------------------------------------------------------------
(* Bounds of the model *)

\* Date.now() never exceeds this in a run
MaxClock == 1
\* Math.random() draws from 0..MaxRandom
MaxRandom == 1
\* the injected validator emits at most this many errors
MaxMockErrors == 1

---------------------------------------------------------------------------
(* JavaScript values *)

Undef == [t |-> "undefined"]
Null == [t |-> "null"]
Bool(b) == [t |-> "boolean", v |-> b]
Num(n) == [t |-> "number", v |-> n]
Str(s) == [t |-> "string", v |-> s]
Arr(a) == [t |-> "array", v |-> a]
EmptyRecord == [k \in {} |-> Undef]

\* an object literal; properties holding undefined are dropped
Obj(r) == [t |-> "object", v |-> [k \in {q \in DOMAIN r : r[q] # Undef} |-> r[k]]]

\* o.k (o is not null or undefined)
Get(o, k) == IF o.t = "object" /\ k \in DOMAIN o.v THEN o.v[k] ELSE Undef

\* {...o, k: val}
Put(o, k, val) ==
    Obj([q \in (DOMAIN o.v) \cup {k} |-> IF q = k THEN val ELSE o.v[q]])

IsNullish(x) == x.t \in {"undefined", "null"}

\* ToBoolean(x)
Truthy(x) ==
    CASE x.t \in {"undefined", "null"} -> FALSE
      [] x.t = "boolean" -> x.v
      [] x.t = "number" -> x.v # 0
      [] x.t = "string" -> x.v # <<>>
      [] OTHER -> TRUE

\* a || b
Or(a, b) == IF Truthy(a) THEN a ELSE b

\* a ?? b
Coalesce(a, b) == IF IsNullish(a) THEN b ELSE a

IsString(x) == x.t = "string"
IsArray(x) == x.t = "array"
IsBoolean(x) == x.t = "boolean"

\* x.length > n  (undefined > n is false)
LengthExceeds(x, n) == x.t \in {"string", "array"} /\ Len(x.v) > n

---------------------------------------------------------------------------
(* Strings, one character per fragment *)

IsSpace(c) == c = " "

\* the string from its first character that is not white space
TrimStart(s) ==
    IF \A i \in 1..Len(s) : IsSpace(s[i]) THEN <<>>
    ELSE SubSeq(s, CHOOSE i \in 1..Len(s) :
                       ~IsSpace(s[i]) /\ \A j \in 1..(i - 1) : IsSpace(s[j]),
                Len(s))

\* the string up to its last character that is not white space
TrimEnd(s) ==
    IF \A i \in 1..Len(s) : IsSpace(s[i]) THEN <<>>
    ELSE SubSeq(s, 1, CHOOSE i \in 1..Len(s) :
                          ~IsSpace(s[i]) /\ \A j \in (i + 1)..Len(s) : IsSpace(s[j]))

\* String.prototype.trim
Trim(s) == TrimEnd(TrimStart(s))

\* String.prototype.startsWith
StartsWith(s, p) == Len(s) >= Len(p) /\ SubSeq(s, 1, Len(p)) = p

\* String.prototype.includes
Includes(s, p) == \E i \in 0..(Len(s) - Len(p)) : SubSeq(s, i + 1, i + Len(p)) = p

Digits == <<"0", "1", "2", "3", "4", "5", "6", "7", "8", "9">>

\* a non-negative integer in a template literal
RECURSIVE NumToStr(_)
NumToStr(n) ==
    IF n < 10 THEN <<Digits[n + 1]>>
    ELSE NumToStr(n \div 10) \o <<Digits[(n % 10) + 1]>>

\* a value in a template literal
ToText(x) ==
    CASE x.t = "string" -> x.v
      [] x.t = "number" -> NumToStr(x.v)
      [] x.t = "boolean" -> IF x.v THEN <<"true">> ELSE <<"false">>
      [] OTHER -> <<x.t>>

\* a string of n copies of character c
Repeat(c, n) == [i \in 1..n |-> c]

---------------------------------------------------------------------------
(* String literals of the code *)

\* the string literals of CourseValidator
CourseText ==
    [courseTitle |-> <<"c", "o", "u", "r", "s", "e", ".", "t", "i", "t", "l", "e">>,
     courseAuthor |-> <<"c", "o", "u", "r", "s", "e", ".", "a", "u", "t", "h", "o", "r">>,
     courseDescription |-> <<"c", "o", "u", "r", "s", "e", ".", "d", "e", "s", "c", "r", "i", "p", "t", "i", "o", "n">>,
     coursePages |-> <<"c", "o", "u", "r", "s", "e", ".", "p", "a", "g", "e", "s">>,
     title |-> <<"t", "i", "t", "l", "e">>,
     description |-> <<"d", "e", "s", "c", "r", "i", "p", "t", "i", "o", "n">>,
     author |-> <<"a", "u", "t", "h", "o", "r">>,
     version |-> <<"v", "e", "r", "s", "i", "o", "n">>]

\* the string literals of NavigationValidator
NavigationText ==
    [settingsNavigation |-> <<"s", "e", "t", "t", "i", "n", "g", "s", ".", "n", "a", "v", "i", "g", "a", "t", "i", "o", "n">>,
     linear |-> <<"l", "i", "n", "e", "a", "r">>,
     free |-> <<"f", "r", "e", "e">>,
     branching |-> <<"b", "r", "a", "n", "c", "h", "i", "n", "g">>,
     dotId |-> <<"]", ".", "i", "d">>,
     dotOrder |-> <<"]", ".", "o", "r", "d", "e", "r">>,
     dotConditionsOpen |-> <<"]", ".", "c", "o", "n", "d", "i", "t", "i", "o", "n", "s", "[">>,
     dotTargetPageId |-> <<"]", ".", "t", "a", "r", "g", "e", "t", "P", "a", "g", "e", "I", "d">>,
     navMode |-> <<"s", "e", "t", "t", "i", "n", "g", "s", ".", "n", "a", "v", "i", "g", "a", "t", "i", "o", "n", ".", "m", "o", "d", "e">>,
     navRequireCompletion |-> <<"s", "e", "t", "t", "i", "n", "g", "s", ".", "n", "a", "v", "i", "g", "a", "t", "i", "o", "n", ".", "r", "e", "q", "u", "i", "r", "e", "C", "o", "m", "p", "l", "e", "t", "i", "o", "n">>,
     navAllowBack |-> <<"s", "e", "t", "t", "i", "n", "g", "s", ".", "n", "a", "v", "i", "g", "a", "t", "i", "o", "n", ".", "a", "l", "l", "o", "w", "B", "a", "c", "k">>]

\* the string literals of TemplateValidator
TemplateText ==
    [pagesOpen |-> <<"p", "a", "g", "e", "s", "[">>,
     mcq |-> <<"m", "c", "q">>,
     contentText |-> <<"c", "o", "n", "t", "e", "n", "t", "-", "t", "e", "x", "t">>,
     welcome |-> <<"w", "e", "l", "c", "o", "m", "e">>,
     dotTemplateType |-> <<"]", ".", "t", "e", "m", "p", "l", "a", "t", "e", "T", "y", "p", "e">>,
     dotContentQuestion |-> <<"]", ".", "c", "o", "n", "t", "e", "n", "t", ".", "q", "u", "e", "s", "t", "i", "o", "n">>,
     dotContentOptions |-> <<"]", ".", "c", "o", "n", "t", "e", "n", "t", ".", "o", "p", "t", "i", "o", "n", "s">>,
     dotContentCorrectAnswer |-> <<"]", ".", "c", "o", "n", "t", "e", "n", "t", ".", "c", "o", "r", "r", "e", "c", "t", "A", "n", "s", "w", "e", "r">>,
     dotContentBody |-> <<"]", ".", "c", "o", "n", "t", "e", "n", "t", ".", "b", "o", "d", "y">>,
     dotContentTitle |-> <<"]", ".", "c", "o", "n", "t", "e", "n", "t", ".", "t", "i", "t", "l", "e">>]

\* the names of the page types that no validator rule names
TypeText ==
    [contentVideo |-> <<"c", "o", "n", "t", "e", "n", "t", "-", "v", "i", "d", "e", "o">>,
     summary |-> <<"s", "u", "m", "m", "a", "r", "y">>,
     contentImage |-> <<"c", "o", "n", "t", "e", "n", "t", "-", "i", "m", "a", "g", "e">>,
     interactive |-> <<"i", "n", "t", "e", "r", "a", "c", "t", "i", "v", "e">>]

\* the string literal of determineLevel
ServiceText ==
    [required |-> <<"r", "e", "q", "u", "i", "r", "e", "d">>]

\* `pages[${index}]<suffix>`
PageField(index, suffix) == TemplateText.pagesOpen \o NumToStr(index) \o suffix

---------------------------------------------------------------------------
(* The outcome of an entity validator's validate(): the promise is          *)
(* fulfilled with the errors, or rejected when the body throws              *)

Fulfilled(errors) == [threw |-> FALSE, errors |-> errors]
Rejected == [threw |-> TRUE, errors |-> <<>>]

\* a ValidationError as a validator builds it (id is the empty string)
RawError(field, category, message, level, context) ==
    [id |-> <<>>, field |-> field, category |-> category, message |-> message,
     level |-> level, context |-> context]

---------------------------------------------------------------------------
(* CourseValidator *)

\* the longest title, author and description CourseValidator accepts
MaxTitleLength == 200
MaxAuthorLength == 100
MaxDescriptionLength == 500

\* createError: the level is always "error"
CourseValidator_createError(field, category, message, context) ==
    RawError(field, category, message, "error", context)

\* !x || x.trim().length === 0, for x undefined, null or a string
BlankString(x) == ~Truthy(x) \/ (IsString(x) /\ Trim(x.v) = <<>>)

\* x.trim is not a function
TrimThrows(x) == Truthy(x) /\ ~IsString(x)

CourseValidator_throws(course) ==
    \/ IsNullish(course)
    \/ TrimThrows(Get(course, "title"))
    \/ TrimThrows(Get(course, "author"))

CourseValidator_titleRequired(course) ==
    IF BlankString(Get(course, "title"))
    THEN <<CourseValidator_createError(CourseText.courseTitle, "schema",
              <<"Course title is required">>,
              Obj([suggestion |-> Str(<<"Add a descriptive title for your course">>)]))>>
    ELSE <<>>

CourseValidator_titleLength(course) ==
    IF Truthy(Get(course, "title")) /\ LengthExceeds(Get(course, "title"), MaxTitleLength)
    THEN <<CourseValidator_createError(CourseText.courseTitle, "business",
              <<"Title must be 200 characters or less">>,
              Obj([currentLength |-> Num(Len(Get(course, "title").v)),
                   maxLength |-> Num(MaxTitleLength)]))>>
    ELSE <<>>

CourseValidator_authorRequired(course) ==
    IF BlankString(Get(course, "author"))
    THEN <<CourseValidator_createError(CourseText.courseAuthor, "schema",
              <<"Course author is required">>,
              Obj([suggestion |-> Str(<<"Add the course author name">>)]))>>
    ELSE <<>>

CourseValidator_authorLength(course) ==
    IF Truthy(Get(course, "author")) /\ LengthExceeds(Get(course, "author"), MaxAuthorLength)
    THEN <<CourseValidator_createError(CourseText.courseAuthor, "business",
              <<"Author name must be 100 characters or less">>,
              Obj([currentLength |-> Num(Len(Get(course, "author").v)),
                   maxLength |-> Num(MaxAuthorLength)]))>>
    ELSE <<>>

CourseValidator_descriptionLength(course) ==
    IF /\ Truthy(Get(course, "description"))
       /\ LengthExceeds(Get(course, "description"), MaxDescriptionLength)
    THEN <<CourseValidator_createError(CourseText.courseDescription, "business",
              <<"Description must be 500 characters or less">>,
              Obj([currentLength |-> Num(Len(Get(course, "description").v)),
                   maxLength |-> Num(MaxDescriptionLength)]))>>
    ELSE <<>>

\* !course.pages || course.pages.length === 0
CourseValidator_pagesRequired(course) ==
    IF \/ ~Truthy(Get(course, "pages"))
       \/ (IsArray(Get(course, "pages")) /\ Len(Get(course, "pages").v) = 0)
    THEN <<CourseValidator_createError(CourseText.coursePages, "business",
              <<"At least one page is required">>,
              Obj([suggestion |-> Str(<<"Add a page from templates">>)]))>>
    ELSE <<>>

CourseValidator_validate(course) ==
    IF CourseValidator_throws(course) THEN Rejected
    ELSE Fulfilled(CourseValidator_titleRequired(course)
                   \o CourseValidator_titleLength(course)
                   \o CourseValidator_authorRequired(course)
                   \o CourseValidator_authorLength(course)
                   \o CourseValidator_descriptionLength(course)
                   \o CourseValidator_pagesRequired(course))

\* ["title", "description", "author", "version"].includes(fieldPath)
CourseValidator_supportsField(fieldPath) ==
    fieldPath \in {CourseText.title, CourseText.description, CourseText.author, CourseText.version}

\* validateField: a switch on the field path (no case for "version")
CourseValidator_validateField(fieldPath, value) ==
    LET err(category, message) ==
            <<CourseValidator_createError(fieldPath, category, message, Undef)>>
    IN  IF fieldPath = CourseText.title
        THEN IF BlankString(value) THEN err("schema", <<"Title is required">>)
             ELSE IF LengthExceeds(value, MaxTitleLength)
                  THEN err("business", <<"Title too long">>)
                  ELSE <<>>
        ELSE IF fieldPath = CourseText.author
        THEN IF BlankString(value) THEN err("schema", <<"Author is required">>)
             ELSE IF LengthExceeds(value, MaxAuthorLength)
                  THEN err("business", <<"Author name too long">>)
                  ELSE <<>>
        ELSE IF fieldPath = CourseText.description
        THEN IF Truthy(value) /\ LengthExceeds(value, MaxDescriptionLength)
             THEN err("business", <<"Description too long">>)
             ELSE <<>>
        ELSE <<>>

\* the switch reads value.trim() on a truthy value
CourseValidator_validateFieldThrows(fieldPath, value) ==
    fieldPath \in {CourseText.title, CourseText.author} /\ TrimThrows(value)

---------------------------------------------------------------------------
(* TemplateValidator *)

\* normalizeTemplateType: templateType (runtime) wins over type
TemplateValidator_normalizeTemplateType(page) ==
    IF Truthy(Get(page, "templateType")) THEN Get(page, "templateType")
    ELSE IF Truthy(Get(page, "type")) THEN Get(page, "type")
    ELSE Undef

TemplateValidator_validateMCQ(page, index) ==
    LET mcqData == Get(page, "content")
        display == NumToStr(index + 1)
    IN  (IF ~Truthy(Get(mcqData, "question")) \/ ~IsString(Get(mcqData, "question"))
         THEN <<RawError(PageField(index, TemplateText.dotContentQuestion), "business",
                   <<"MCQ page ">> \o display \o <<" must have a question">>,
                   "error", Undef)>>
         ELSE <<>>)
        \o
        (IF ~IsArray(Get(mcqData, "options")) \/ Len(Get(mcqData, "options").v) < 2
         THEN <<RawError(PageField(index, TemplateText.dotContentOptions), "business",
                   <<"MCQ page ">> \o display \o <<" must have at least 2 options">>,
                   "error", Undef)>>
         ELSE <<>>)
        \o
        (IF Get(mcqData, "correctAnswer") = Undef
         THEN <<RawError(PageField(index, TemplateText.dotContentCorrectAnswer), "business",
                   <<"MCQ page ">> \o display \o <<" must have a correct answer">>,
                   "error", Undef)>>
         ELSE <<>>)

TemplateValidator_validateContentText(page, index) ==
    IF BlankString(Get(Get(page, "content"), "body"))
    THEN <<RawError(PageField(index, TemplateText.dotContentBody), "business",
              <<"Content page ">> \o NumToStr(index + 1) \o <<" must have body text">>,
              "warning", Undef)>>
    ELSE <<>>

TemplateValidator_validateWelcome(page, index) ==
    IF ~Truthy(Get(Get(page, "content"), "title"))
    THEN <<RawError(PageField(index, TemplateText.dotContentTitle), "business",
              <<"Welcome page must have a title">>, "error", Undef)>>
    ELSE <<>>

\* the errors of the page at array position index (0-based)
TemplateValidator_page(page, index) ==
    LET templateType == TemplateValidator_normalizeTemplateType(page)
    IN  IF ~Truthy(templateType)
        THEN <<RawError(PageField(index, TemplateText.dotTemplateType), "schema",
                  <<"Page ">> \o NumToStr(index + 1) \o <<" missing template type">>,
                  "error", Undef)>>
        ELSE IF templateType = Str(TemplateText.mcq) THEN TemplateValidator_validateMCQ(page, index)
        ELSE IF templateType = Str(TemplateText.contentText)
             THEN TemplateValidator_validateContentText(page, index)
        ELSE IF templateType = Str(TemplateText.welcome) THEN TemplateValidator_validateWelcome(page, index)
        ELSE <<RawError(PageField(index, TemplateText.dotTemplateType), "business",
                  <<"Unknown template type: ">> \o ToText(templateType),
                  "warning", Undef)>>

\* the page's rule reads a property of page.content, or trims a body that
\* is no string, or the page itself is null
TemplateValidator_pageThrows(page) ==
    \/ IsNullish(page)
    \/ LET templateType == TemplateValidator_normalizeTemplateType(page)
       IN  /\ templateType \in {Str(TemplateText.mcq), Str(TemplateText.contentText), Str(TemplateText.welcome)}
           /\ \/ IsNullish(Get(page, "content"))
              \/ /\ templateType = Str(TemplateText.contentText)
                 /\ TrimThrows(Get(Get(page, "content"), "body"))

\* course.pages?.forEach: nothing for undefined or null, a TypeError for a
\* value that has no forEach
TemplateValidator_throws(course) ==
    \/ IsNullish(course)
    \/ LET pages == Get(course, "pages")
       IN  /\ ~IsNullish(pages)
           /\ \/ ~IsArray(pages)
              \/ \E i \in 1..Len(pages.v) : TemplateValidator_pageThrows(pages.v[i])

RECURSIVE TemplateValidator_pages(_, _)
TemplateValidator_pages(pages, n) ==
    IF n = 0 THEN <<>>
    ELSE TemplateValidator_pages(pages, n - 1) \o TemplateValidator_page(pages[n], n - 1)

TemplateValidator_validate(course) ==
    IF TemplateValidator_throws(course) THEN Rejected
    ELSE IF IsNullish(Get(course, "pages")) THEN Fulfilled(<<>>)
    ELSE Fulfilled(TemplateValidator_pages(Get(course, "pages").v,
                                           Len(Get(course, "pages").v)))

TemplateValidator_supportsField(fieldPath) == StartsWith(fieldPath, TemplateText.pagesOpen)

\* validateField reports nothing
TemplateValidator_validateField(fieldPath, value) == <<>>

---------------------------------------------------------------------------
(* NavigationValidator *)

NavigationValidator_validateNavigationSettings(navigation) ==
    (IF /\ Truthy(Get(navigation, "mode"))
        /\ Get(navigation, "mode") \notin {Str(NavigationText.linear), Str(NavigationText.free), Str(NavigationText.branching)}
     THEN <<RawError(NavigationText.navMode, "business",
               <<"Invalid navigation mode: ">> \o ToText(Get(navigation, "mode"))
                  \o <<". Must be 'linear', 'free', or 'branching'">>,
               "error", Undef)>>
     ELSE <<>>)
    \o
    (IF /\ Get(navigation, "requireCompletion") # Undef
        /\ ~IsBoolean(Get(navigation, "requireCompletion"))
     THEN <<RawError(NavigationText.navRequireCompletion, "schema",
               <<"requireCompletion must be a boolean">>, "error", Undef)>>
     ELSE <<>>)
    \o
    (IF /\ Get(navigation, "allowBack") # Undef
        /\ ~IsBoolean(Get(navigation, "allowBack"))
     THEN <<RawError(NavigationText.navAllowBack, "schema",
               <<"allowBack must be a boolean">>, "error", Undef)>>
     ELSE <<>>)

\* the page ids the duplicate scan has added to its Set before position n+1
RECURSIVE NavigationValidator_seenIds(_, _)
NavigationValidator_seenIds(pages, n) ==
    IF n = 0 THEN {}
    ELSE NavigationValidator_seenIds(pages, n - 1)
         \cup (IF Truthy(Get(pages[n], "id")) THEN {Get(pages[n], "id")} ELSE {})

\* a variant that reports an id once, however often it recurs
RECURSIVE NavigationValidator_duplicateIds_once(_, _)
NavigationValidator_duplicateIds_once(pages, n) ==
    IF n = 0 THEN <<>>
    ELSE NavigationValidator_duplicateIds_once(pages, n - 1)
         \o (IF /\ Truthy(Get(pages[n], "id"))
                /\ Cardinality({m \in 1..(n - 1) : Get(pages[m], "id") = Get(pages[n], "id")}) = 1
             THEN <<RawError(PageField(n - 1, NavigationText.dotId), "business",
                       <<"Duplicate page ID: ">> \o ToText(Get(pages[n], "id")),
                       "error", Undef)>>
             ELSE <<>>)

RECURSIVE NavigationValidator_duplicateIds(_, _)
NavigationValidator_duplicateIds(pages, n) ==
    IF n = 0 THEN <<>>
    ELSE NavigationValidator_duplicateIds(pages, n - 1)
         \o (IF /\ Truthy(Get(pages[n], "id"))
                /\ Get(pages[n], "id") \in NavigationValidator_seenIds(pages, n - 1)
             THEN <<RawError(PageField(n - 1, NavigationText.dotId), "business",
                       <<"Duplicate page ID: ">> \o ToText(Get(pages[n], "id")),
                       "error", Undef)>>
             ELSE <<>>)

RECURSIVE NavigationValidator_orderMismatch(_, _)
NavigationValidator_orderMismatch(pages, n) ==
    IF n = 0 THEN <<>>
    ELSE NavigationValidator_orderMismatch(pages, n - 1)
         \o (IF Get(pages[n], "order") # Undef /\ Get(pages[n], "order") # Num(n - 1)
             THEN <<RawError(PageField(n - 1, NavigationText.dotOrder), "business",
                       <<"Page order mismatch: expected ">> \o NumToStr(n - 1)
                          \o <<", got ">> \o ToText(Get(pages[n], "order")),
                       "warning", Undef)>>
             ELSE <<>>)

RECURSIVE NavigationValidator_conditions(_, _, _)
NavigationValidator_conditions(conditions, index, c) ==
    IF c = 0 THEN <<>>
    ELSE NavigationValidator_conditions(conditions, index, c - 1)
         \o (IF ~Truthy(Get(conditions[c], "targetPageId"))
             THEN <<RawError(PageField(index, NavigationText.dotConditionsOpen) \o NumToStr(c - 1)
                                \o NavigationText.dotTargetPageId,
                             "business",
                             <<"Branching condition missing target page ID">>,
                             "error", Undef)>>
             ELSE <<>>)

RECURSIVE NavigationValidator_branching(_, _)
NavigationValidator_branching(pages, n) ==
    IF n = 0 THEN <<>>
    ELSE NavigationValidator_branching(pages, n - 1)
         \o (IF IsArray(Get(pages[n], "conditions"))
             THEN NavigationValidator_conditions(Get(pages[n], "conditions").v, n - 1,
                                                 Len(Get(pages[n], "conditions").v))
             ELSE <<>>)

NavigationValidator_validatePageFlow(pages) ==
    NavigationValidator_duplicateIds(pages, Len(pages))
    \o NavigationValidator_orderMismatch(pages, Len(pages))
    \o NavigationValidator_branching(pages, Len(pages))

\* a null page, or a null entry of a conditions list, is dereferenced
NavigationValidator_throws(course) ==
    \/ IsNullish(course)
    \/ LET pages == Get(course, "pages")
       IN  /\ IsArray(pages)
           /\ \E i \in 1..Len(pages.v) :
                \/ IsNullish(pages.v[i])
                \/ /\ IsArray(Get(pages.v[i], "conditions"))
                   /\ \E c \in 1..Len(Get(pages.v[i], "conditions").v) :
                        IsNullish(Get(pages.v[i], "conditions").v[c])

NavigationValidator_validate(course) ==
    IF NavigationValidator_throws(course) THEN Rejected
    ELSE LET settings == Get(course, "settings")
             navigation == IF IsNullish(settings) THEN Undef ELSE Get(settings, "navigation")
             pages == Get(course, "pages")
         IN  Fulfilled(
                (IF Truthy(navigation)
                 THEN NavigationValidator_validateNavigationSettings(navigation)
                 ELSE <<>>)
                \o
                (IF IsArray(pages) /\ Len(pages.v) > 0
                 THEN NavigationValidator_validatePageFlow(pages.v)
                 ELSE <<>>))

NavigationValidator_supportsField(fieldPath) ==
    StartsWith(fieldPath, NavigationText.settingsNavigation) \/ StartsWith(fieldPath, TemplateText.pagesOpen)

\* validateField reports nothing
NavigationValidator_validateField(fieldPath, value) == <<>>

---------------------------------------------------------------------------
(* ValidationService *)

Categories == {"schema", "business", "template", "navigation"}
Levels == {"error", "warning", "info"}

\* the validators the constructor registers when none are injected
DefaultValidators == <<"Course", "Template", "Navigation">>

\* v.validate(course) of a registered validator; an injected validator
\* ("Mock") resolves to the errors it was built with
Validate(v, course) ==
    CASE v = "Course" -> CourseValidator_validate(course)
      [] v = "Template" -> TemplateValidator_validate(course)
      [] v = "Navigation" -> NavigationValidator_validate(course)
      [] OTHER -> Fulfilled(mockErrors)

\* v.supportsField(fieldPath); the injected validator supports no path
SupportsField(v, fieldPath) ==
    CASE v = "Course" -> CourseValidator_supportsField(fieldPath)
      [] v = "Template" -> TemplateValidator_supportsField(fieldPath)
      [] v = "Navigation" -> NavigationValidator_supportsField(fieldPath)
      [] OTHER -> FALSE

\* v.validateField(course, fieldPath, value)
ValidateFieldOf(v, fieldPath, value) ==
    CASE v = "Course" ->
            IF CourseValidator_validateFieldThrows(fieldPath, value) THEN Rejected
            ELSE Fulfilled(CourseValidator_validateField(fieldPath, value))
      [] v = "Template" -> Fulfilled(TemplateValidator_validateField(fieldPath, value))
      [] v = "Navigation" -> Fulfilled(NavigationValidator_validateField(fieldPath, value))
      [] OTHER -> Fulfilled(<<>>)

\* determineLevel without the escalation of "required" paths
determineLevel_withoutRequired(error) ==
    IF error.category = "schema" THEN "error"
    ELSE IF error.category = "business" THEN "warning"
    ELSE "info"

\* determineLevel
determineLevel(error) ==
    IF error.category = "schema" THEN "error"
    ELSE IF error.category = "business" /\ Includes(error.field, ServiceText.required) THEN "error"
    ELSE IF error.category = "business" THEN "warning"
    ELSE "info"

\* `${error.category}-${Date.now()}-${Math.random()}`
ErrorId(category, time, random) == <<category, time, random>>

\* categorizeErrors: times[i] and randoms[i] are what Date.now() and
\* Math.random() return while the i-th error is mapped
categorizeErrors(errors, times, randoms) ==
    [i \in 1..Len(errors) |->
        [errors[i] EXCEPT !.id = ErrorId(errors[i].category, times[i], randoms[i]),
                          !.level = determineLevel(errors[i])]]

\* results.forEach((result) => errors.push(...result.errors))
RECURSIVE Flatten(_, _)
Flatten(results, n) ==
    IF n = 0 THEN <<>> ELSE Flatten(results, n - 1) \o results[n].errors

\* a find that keeps the last supporting validator instead of the first
RECURSIVE FindValidator_last(_, _, _)
FindValidator_last(vs, fieldPath, i) ==
    IF i > Len(vs) THEN 0
    ELSE LET later == FindValidator_last(vs, fieldPath, i + 1)
         IN  IF later # 0 THEN later
             ELSE IF SupportsField(vs[i], fieldPath) THEN i ELSE 0

\* this.validators.find((v) => v.supportsField(fieldPath)): its position, 0 for none
RECURSIVE FindValidator(_, _, _)
FindValidator(vs, fieldPath, i) ==
    IF i > Len(vs) THEN 0
    ELSE IF SupportsField(vs[i], fieldPath) THEN i
    ELSE FindValidator(vs, fieldPath, i + 1)

Pending == [state |-> "pending", errors |-> <<>>]

\* an invocation: where it stands, its argument, the promises it awaits, the
\* order in which they settled (kept for the record only; the code does not
\* read it) and the result it returned
IdleCall ==
    [pc |-> "idle", course |-> Undef, promises |-> <<>>, settled |-> <<>>,
     result |-> [valid |-> FALSE, errors |-> <<>>, timestamp |-> 0]]

\* validateCourse up to its await: validators.map((v) => v.validate(course))
\* creates one promise per validator, in registration order
ValidateCourseCall(inv, course) ==
    /\ calls[inv].pc = "idle"
    /\ calls' = [calls EXCEPT ![inv] =
                    [@ EXCEPT !.pc = "awaiting", !.course = course,
                              !.promises = [i \in 1..Len(validators) |-> Pending]]]
    /\ UNCHANGED <<validators, mockErrors, now, fieldCall, tIn, tOut, tPc, ctx>>

\* a service that collects the results in the order the promises settle
ValidatorSettles_inCompletionOrder(inv, i) ==
    /\ calls[inv].pc = "awaiting"
    /\ i \in 1..Len(calls[inv].promises)
    /\ \A k \in 1..Len(calls[inv].settled) : calls[inv].settled[k] # i
    /\ LET outcome == Validate(validators[i], calls[inv].course)
           slot == Len(calls[inv].settled) + 1
       IN  calls' = [calls EXCEPT ![inv].promises[slot] =
                        IF outcome.threw
                        THEN [state |-> "rejected", errors |-> <<>>]
                        ELSE [state |-> "fulfilled", errors |-> outcome.errors],
                                  ![inv].settled = Append(@, i)]
    /\ UNCHANGED <<validators, mockErrors, now, fieldCall, tIn, tOut, tPc, ctx>>

\* the promise of the i-th validator settles; the order in which the
\* promises settle is not fixed
ValidatorSettles(inv, i) ==
    /\ calls[inv].pc = "awaiting"
    /\ i \in 1..Len(calls[inv].promises)
    /\ calls[inv].promises[i].state = "pending"
    /\ LET outcome == Validate(validators[i], calls[inv].course)
       IN  calls' = [calls EXCEPT ![inv].promises[i] =
                        IF outcome.threw
                        THEN [state |-> "rejected", errors |-> <<>>]
                        ELSE [state |-> "fulfilled", errors |-> outcome.errors],
                                  ![inv].settled = Append(@, i)]
    /\ UNCHANGED <<validators, mockErrors, now, fieldCall, tIn, tOut, tPc, ctx>>

\* Promise.all is fulfilled: flatten, categorize, return.  The clock may
\* advance while the errors are mapped: the first k read `now`, the rest now+1
ValidateCourseReturns(inv) ==
    /\ calls[inv].pc = "awaiting"
    /\ \A i \in 1..Len(calls[inv].promises) : calls[inv].promises[i].state = "fulfilled"
    /\ LET errors == Flatten(calls[inv].promises, Len(calls[inv].promises))
           n == Len(errors)
       IN  \E k \in (IF now < MaxClock THEN 0..n ELSE {n}) :
           \E randoms \in [1..n -> 0..MaxRandom] :
              LET times == [i \in 1..n |-> IF i <= k THEN now ELSE now + 1]
                  end == IF k < n THEN now + 1 ELSE now
              IN  /\ calls' = [calls EXCEPT ![inv] =
                         [@ EXCEPT !.pc = "returned",
                                   !.result = [valid |-> n = 0,
                                               errors |-> categorizeErrors(errors, times, randoms),
                                               timestamp |-> end]]]
                  /\ now' = end
    /\ UNCHANGED <<validators, mockErrors, fieldCall, tIn, tOut, tPc, ctx>>

\* Promise.all is rejected as soon as one promise is: validateCourse rejects
ValidateCourseRejects(inv) ==
    /\ calls[inv].pc = "awaiting"
    /\ \E i \in 1..Len(calls[inv].promises) : calls[inv].promises[i].state = "rejected"
    /\ calls' = [calls EXCEPT ![inv].pc = "rejected"]
    /\ UNCHANGED <<validators, mockErrors, now, fieldCall, tIn, tOut, tPc, ctx>>

\* time passes
Tick ==
    /\ now < MaxClock
    /\ now' = now + 1
    /\ UNCHANGED <<validators, mockErrors, calls, fieldCall, tIn, tOut, tPc, ctx>>

NoFieldCall ==
    [pc |-> "idle", fieldPath |-> <<>>, value |-> Undef, validator |-> "none",
     errors |-> <<>>]

\* validateField: the first validator that supports the path answers
ValidateField(fieldPath, value) ==
    /\ LET i == FindValidator(validators, fieldPath, 1)
           outcome == IF i = 0 THEN Fulfilled(<<>>)
                      ELSE ValidateFieldOf(validators[i], fieldPath, value)
       IN  fieldCall' =
              [pc |-> IF outcome.threw THEN "rejected" ELSE "returned",
               fieldPath |-> fieldPath, value |-> value,
               validator |-> IF i = 0 THEN "none" ELSE validators[i],
               errors |-> outcome.errors]
    /\ UNCHANGED <<validators, mockErrors, now, calls, tIn, tOut, tPc, ctx>>

---------------------------------------------------------------------------
(* Courses handed to the validators (the editor shape: pages / content) *)

\* strings of the inputs the model draws
InputText ==
    [summary |-> <<"s", "u", "m", "m", "a", "r", "y">>,
     p1 |-> <<"p", "1">>,
     p2 |-> <<"p", "2">>,
     coursePagesRequired |-> <<"c", "o", "u", "r", "s", "e", ".", "p", "a", "g", "e", "s", ".", "r", "e", "q", "u", "i", "r", "e", "d">>,
     pagesZeroTitle |-> <<"p", "a", "g", "e", "s", "[", "0", "]", ".", "t", "i", "t", "l", "e">>,
     settingsTheme |-> <<"s", "e", "t", "t", "i", "n", "g", "s", ".", "t", "h", "e", "m", "e">>,
     pages |-> <<"p", "a", "g", "e", "s">>]

EditorPage(id, templateType, order, content) ==
    Obj([id |-> Str(id), templateType |-> templateType, title |-> Str(<<"Page">>),
         order |-> Num(order), content |-> content])

TextPage(id, order) ==
    EditorPage(id, Str(TemplateText.contentText), order, Obj([body |-> Str(<<"b">>)]))

\* an MCQ page with a single option
McqOneOption(id, order) ==
    EditorPage(id, Str(TemplateText.mcq), order,
               Obj([question |-> Str(<<"Q">>), options |-> Arr(<<Str(<<"x">>)>>),
                    correctAnswer |-> Str(<<"x">>)]))

EditorCourse(title, author, pages) ==
    Obj([courseId |-> Str(<<"c", "1">>), title |-> title, author |-> author,
         pages |-> pages])

ValidCourse == EditorCourse(Str(<<"T">>), Str(<<"A">>), Arr(<<TextPage(InputText.p1, 0)>>))

\* empty title, no author, empty pages collection
EmptyTitleNoPages == EditorCourse(Str(<<>>), Undef, Arr(<<>>))

\* empty title, no author, an MCQ page with one option
EmptyTitleMcqOneOption == EditorCourse(Str(<<>>), Undef, Arr(<<McqOneOption(InputText.p1, 0)>>))

\* blank title, nothing else
BlankCourse == EditorCourse(Str(<<" ">>), Undef, Undef)

LongTitleCourse ==
    EditorCourse(Str(Repeat("x", MaxTitleLength + 1)), Str(<<"A">>),
                 Arr(<<TextPage(InputText.p1, 0)>>))

\* two pages sharing an id, the second with a stale order
DuplicateIdCourse ==
    EditorCourse(Str(<<"T">>), Str(<<"A">>), Arr(<<TextPage(InputText.p1, 0), TextPage(InputText.p1, 5)>>))

NoTypeCourse ==
    EditorCourse(Str(<<"T">>), Str(<<"A">>),
                 Arr(<<EditorPage(InputText.p1, Undef, 0, Obj([body |-> Str(<<"b">>)]))>>))

SummaryCourse ==
    EditorCourse(Str(<<"T">>), Str(<<"A">>),
                 Arr(<<EditorPage(InputText.p1, Str(InputText.summary), 0, Obj([title |-> Str(<<"S">>)])),
                       EditorPage(InputText.p2, Str(TemplateText.welcome), 1, Obj(EmptyRecord))>>))

\* an MCQ page whose content is missing
McqNoContentCourse ==
    EditorCourse(Str(<<"T">>), Str(<<"A">>), Arr(<<EditorPage(InputText.p1, Str(TemplateText.mcq), 0, Undef)>>))

NavigationCourse ==
    Put(EditorCourse(Str(<<"T">>), Str(<<"A">>),
            Arr(<<Put(TextPage(InputText.p1, 0), "conditions",
                      Arr(<<Obj(EmptyRecord), Obj([targetPageId |-> Str(InputText.p2)])>>))>>)),
        "settings",
        Obj([navigation |-> Obj([mode |-> Str(<<"r", "a", "n", "d", "o", "m">>),
                                 allowBack |-> Str(<<"y", "e", "s">>)])]))

\* a defect for each validator: no title, a page without a type, a repeated id
MixedCourse ==
    EditorCourse(Str(<<>>), Str(<<"A">>),
                 Arr(<<EditorPage(InputText.p1, Undef, 0, Obj([body |-> Str(<<"b">>)])),
                       TextPage(InputText.p1, 1)>>))

Courses ==
    {ValidCourse, MixedCourse, EmptyTitleNoPages, EmptyTitleMcqOneOption, BlankCourse, LongTitleCourse,
     DuplicateIdCourse, NoTypeCourse, SummaryCourse, McqNoContentCourse, NavigationCourse}

\* the courses of two overlapping invocations
OverlapCourses == {ValidCourse, EmptyTitleNoPages, NoTypeCourse, McqNoContentCourse}

\* what an injected validator may emit: any category, any provisional level
MockFields == {InputText.coursePagesRequired, PageField(0, TemplateText.dotContentBody)}
MockErrors ==
    {RawError(f, c, <<"m">>, l, Undef) : f \in MockFields, c \in Categories, l \in Levels}

RECURSIVE SeqsUpTo(_, _)
SeqsUpTo(S, n) ==
    IF n = 0 THEN {<<>>}
    ELSE SeqsUpTo(S, n - 1)
         \cup {Append(s, e) : s \in {q \in SeqsUpTo(S, n - 1) : Len(q) = n - 1}, e \in S}

MockErrorLists == SeqsUpTo(MockErrors, MaxMockErrors)

---------------------------------------------------------------------------
(* Field paths and values handed to validateField *)

FieldPaths ==
    {CourseText.title, CourseText.description, CourseText.author, CourseText.version, InputText.pagesZeroTitle,
     PageField(1, TemplateText.dotContentBody), PageField(0, NavigationText.dotId), NavigationText.navMode, NavigationText.navAllowBack,
     InputText.settingsTheme, InputText.pages, CourseText.courseTitle}

FieldValues ==
    {Undef, Str(<<>>), Str(<<" ">>), Str(<<"T">>), Str(Repeat("x", MaxAuthorLength + 1)),
     Str(Repeat("x", MaxTitleLength + 1)), Str(Repeat("x", MaxDescriptionLength + 1)),
     Num(7)}

\* the validator lists a service is built with: the default registration,
\* an injected stub, and the default validators registered in reverse
ValidatorLists == {DefaultValidators, <<"Mock">>}
FieldValidatorLists == {DefaultValidators, <<"Navigation", "Template", "Course">>}

---------------------------------------------------------------------------
(* Specifications *)

ServiceIdle ==
    /\ now = 0
    /\ fieldCall = NoFieldCall
    /\ tIn = Undef
    /\ tOut = Undef
    /\ tPc = "idle"
    /\ ctx = Undef

\* one validateCourse invocation on a service built with the default or an
\* injected validator list
Init ==
    /\ validators \in ValidatorLists
    /\ mockErrors \in (IF validators = DefaultValidators THEN {<<>>} ELSE MockErrorLists)
    /\ calls = [inv \in 1..1 |-> IdleCall]
    /\ ServiceIdle

Next ==
    \/ \E inv \in DOMAIN calls, course \in Courses : ValidateCourseCall(inv, course)
    \/ \E inv \in DOMAIN calls, i \in 1..Len(validators) : ValidatorSettles(inv, i)
    \/ \E inv \in DOMAIN calls : ValidateCourseReturns(inv)
    \/ \E inv \in DOMAIN calls : ValidateCourseRejects(inv)
    \/ Tick

Spec == Init /\ [][Next]_vars

\* two validateCourse invocations of the singleton service that overlap
InitOverlap ==
    /\ validators = DefaultValidators
    /\ mockErrors = <<>>
    /\ calls = [inv \in 1..2 |-> IdleCall]
    /\ ServiceIdle

NextOverlap ==
    \/ \E inv \in DOMAIN calls, course \in OverlapCourses : ValidateCourseCall(inv, course)
    \/ \E inv \in DOMAIN calls, i \in 1..Len(validators) : ValidatorSettles(inv, i)
    \/ \E inv \in DOMAIN calls : ValidateCourseReturns(inv)
    \/ \E inv \in DOMAIN calls : ValidateCourseRejects(inv)
    \/ Tick

SpecOverlap == InitOverlap /\ [][NextOverlap]_vars

\* validateField invocations
InitField ==
    /\ validators \in FieldValidatorLists
    /\ mockErrors = <<>>
    /\ calls = [inv \in 1..1 |-> IdleCall]
    /\ ServiceIdle

NextField ==
    \E fieldPath \in FieldPaths, value \in FieldValues : ValidateField(fieldPath, value)

SpecField == InitField /\ [][NextField]_vars

---------------------------------------------------------------------------
(* Claims about ValidationService *)

Returned(inv) == calls[inv].pc = "returned"

\* the errors the promises of an invocation were fulfilled with, in
\* registration order, as the validators built them
EmittedErrors(inv) == Flatten(calls[inv].promises, Len(calls[inv].promises))

\* the level the escalation rule gives to a category and a field path
EscalatedLevel(category, field) ==
    CASE category = "schema" -> "error"
      [] category = "business" ->
            IF Includes(field, ServiceText.required) THEN "error" ELSE "warning"
      [] OTHER -> "info"

\* C1: in the result of validateCourse the level of every error follows from
\* its category and field path alone: schema gives error, business gives
\* error when the path contains "required" and warning otherwise, any other
\* category gives info, whatever level the validator had set.
C1_LevelFromCategoryAndField ==
    \A inv \in DOMAIN calls :
        Returned(inv) =>
            \A i \in 1..Len(calls[inv].result.errors) :
                LET e == calls[inv].result.errors[i]
                IN  e.level = EscalatedLevel(e.category, e.field)

\* C1 witness: a returned business error on a "required" path that its
\* validator had emitted with level info and that came out with level error
C1_Witness ==
    \E inv \in DOMAIN calls :
        /\ Returned(inv)
        /\ \E i \in 1..Len(calls[inv].result.errors) :
              /\ calls[inv].result.errors[i].category = "business"
              /\ calls[inv].result.errors[i].field = InputText.coursePagesRequired
              /\ EmittedErrors(inv)[i].level = "info"
              /\ calls[inv].result.errors[i].level = "error"

\* a course showing the blocking defects: no title, and no page or an MCQ
\* page with a single option
HasBlockingDefects(course) ==
    /\ BlankString(Get(course, "title"))
    /\ \/ ~Truthy(Get(course, "pages"))
       \/ /\ IsArray(Get(course, "pages"))
          /\ \/ Len(Get(course, "pages").v) = 0
             \/ \E i \in 1..Len(Get(course, "pages").v) :
                   LET page == Get(course, "pages").v[i]
                   IN  /\ TemplateValidator_normalizeTemplateType(page) = Str(TemplateText.mcq)
                       /\ IsArray(Get(Get(page, "content"), "options"))
                       /\ Len(Get(Get(page, "content"), "options").v) = 1

\* C2: validateCourse of the default service on a course with the blocking
\* defects returns valid:false with at least 3 errors, every one of final
\* level error.
C2_BlockingDefectsAllErrorLevel ==
    \A inv \in DOMAIN calls :
        (/\ validators = DefaultValidators
         /\ Returned(inv)
         /\ HasBlockingDefects(calls[inv].course)) =>
            /\ calls[inv].result.valid = FALSE
            /\ Len(calls[inv].result.errors) >= 3
            /\ \A i \in 1..Len(calls[inv].result.errors) :
                  calls[inv].result.errors[i].level = "error"

\* an error without the id and level the service assigns
Core(e) == [field |-> e.field, category |-> e.category, message |-> e.message,
            context |-> e.context]

\* C3: validateCourse creates one promise per validator before it waits,
\* returns only when all are fulfilled, and returns the Course errors, then
\* the Template errors, then the Navigation errors, each in emission order,
\* none lost or repeated, whatever order the promises settled in.
C3_RegistrationOrder ==
    \A inv \in DOMAIN calls :
        /\ calls[inv].pc # "idle" => Len(calls[inv].promises) = Len(validators)
        /\ (Returned(inv) /\ validators = DefaultValidators) =>
              LET expected == CourseValidator_validate(calls[inv].course).errors
                              \o TemplateValidator_validate(calls[inv].course).errors
                              \o NavigationValidator_validate(calls[inv].course).errors
                  got == calls[inv].result.errors
              IN  /\ Len(calls[inv].settled) = Len(validators)
                  /\ Len(got) = Len(expected)
                  /\ \A i \in 1..Len(got) : Core(got[i]) = Core(expected[i])
                  /\ calls[inv].result.valid = (Len(expected) = 0)

\* C3 witness: the Navigation promise settled first and the Course promise
\* last, and the result holds an error of each validator
C3_Witness ==
    \E inv \in DOMAIN calls :
        /\ Returned(inv)
        /\ calls[inv].course = MixedCourse
        /\ calls[inv].settled = <<3, 2, 1>>
        /\ Len(calls[inv].result.errors) = 3

\* C4: the id of every returned error differs from the id of every other
\* returned error, in the same result and in the result of any other
\* invocation, overlapping ones included.
C4_UniqueIds ==
    \A a \in DOMAIN calls, b \in DOMAIN calls :
        (Returned(a) /\ Returned(b)) =>
            \A i \in 1..Len(calls[a].result.errors), j \in 1..Len(calls[b].result.errors) :
                (a # b \/ i # j) =>
                    calls[a].result.errors[i].id # calls[b].result.errors[j].id

\* C5: validateField is answered by the first validator, in registration
\* order, that supports the path, and by none when no validator does; the
\* errors come back as that validator built them (no id, the validator's own
\* level); with the default registration a path starting with "pages[" is
\* answered by the Template validator, never by the Navigation validator.
C5_FirstSupportingValidator ==
    fieldCall.pc # "idle" =>
        LET path == fieldCall.fieldPath
            supporting == {i \in 1..Len(validators) : SupportsField(validators[i], path)}
        IN  /\ supporting = {} => (fieldCall.validator = "none" /\ fieldCall.errors = <<>>)
            /\ supporting # {} =>
                  fieldCall.validator =
                      validators[CHOOSE i \in supporting : \A j \in supporting : i <= j]
            /\ \A i \in 1..Len(fieldCall.errors) :
                  fieldCall.errors[i].id = <<>> /\ fieldCall.errors[i].level = "error"
            /\ (validators = DefaultValidators /\ StartsWith(path, TemplateText.pagesOpen)) =>
                  (fieldCall.validator = "Template" /\ fieldCall.errors = <<>>)

\* C5 witness: with the default registration, where the Template and the
\* Navigation validator both support it, a "pages[" path was answered by the
\* Template validator
C5_Witness ==
    /\ validators = DefaultValidators
    /\ fieldCall.pc = "returned"
    /\ fieldCall.fieldPath = InputText.pagesZeroTitle
    /\ NavigationValidator_supportsField(fieldCall.fieldPath)
    /\ fieldCall.validator = "Template"

---------------------------------------------------------------------------
(* The transforms: transformCourseForBackend and transformCourseForExport   *)

\* the string literals of the transforms
TransformText ==
    [en |-> <<"e", "n">>,
     default |-> <<"d", "e", "f", "a", "u", "l", "t">>,
     unknown |-> <<"U", "n", "k", "n", "o", "w", "n">>,
     unknownAuthor |-> <<"U", "n", "k", "n", "o", "w", "n", " ", "A", "u", "t", "h", "o", "r">>,
     defaultVersion |-> <<"1", ".", "0", ".", "0">>,
     opt |-> <<"o", "p", "t", "_">>,
     q1 |-> <<"_", "q", "1">>,
     q |-> <<"q", "_">>,
     option |-> <<"O", "p", "t", "i", "o", "n", " ">>,
     quiz |-> <<"Q", "u", "i", "z">>,
     content |-> <<"C", "o", "n", "t", "e", "n", "t">>,
     sampleQuestion |-> <<"S", "a", "m", "p", "l", "e", " ", "Q", "u", "e", "s", "t", "i", "o", "n">>,
     questionMark |-> <<"Q", "u", "e", "s", "t", "i", "o", "n", "?">>,
     mcq |-> <<"m", "c", "q">>]

\* JSON.parse(JSON.stringify(x)): a property holding undefined is dropped,
\* an undefined array element becomes null
RECURSIVE JsonClone(_)
JsonClone(x) ==
    CASE x.t = "object" -> Obj([k \in DOMAIN x.v |-> JsonClone(x.v[k])])
      [] x.t = "array" ->
            Arr([i \in 1..Len(x.v) |->
                    IF x.v[i] = Undef THEN Null ELSE JsonClone(x.v[i])])
      [] OTHER -> x

\* /^\d+$/ on a fragment of a string
AllDigits(s) == s # <<>> /\ \A i \in 1..Len(s) : \E d \in 1..10 : s[i] = Digits[d]

\* /^\d+\.\d+\.\d+$/.test(s)
IsVersion(s) ==
    \E i, j \in 1..Len(s) :
        /\ i < j
        /\ s[i] = "."
        /\ s[j] = "."
        /\ AllDigits(SubSeq(s, 1, i - 1))
        /\ AllDigits(SubSeq(s, i + 1, j - 1))
        /\ AllDigits(SubSeq(s, j + 1, Len(s)))

\* the comparator of the sort: (a.order ?? 0) - (b.order ?? 0)
CompareOrder(a, b) ==
    Coalesce(Get(a, "order"), Num(0)).v - Coalesce(Get(b, "order"), Num(0)).v

\* a variant that places a template before the templates it compares equal to
RECURSIVE InsertByOrder_beforeEqual(_, _)
InsertByOrder_beforeEqual(sorted, t) ==
    IF sorted = <<>> THEN <<t>>
    ELSE IF CompareOrder(Head(sorted), t) >= 0 THEN <<t>> \o sorted
    ELSE <<Head(sorted)>> \o InsertByOrder_beforeEqual(Tail(sorted), t)

\* Array.prototype.sort is stable: a template goes after every template that
\* does not compare greater than it
RECURSIVE InsertByOrder(_, _)
InsertByOrder(sorted, t) ==
    IF sorted = <<>> THEN <<t>>
    ELSE IF CompareOrder(Head(sorted), t) > 0 THEN <<t>> \o sorted
    ELSE <<Head(sorted)>> \o InsertByOrder(Tail(sorted), t)

\* [...sourceTemplates].sort(comparator)
RECURSIVE sortedTemplates(_)
sortedTemplates(ts) ==
    IF ts = <<>> THEN <<>>
    ELSE InsertByOrder(sortedTemplates(SubSeq(ts, 1, Len(ts) - 1)), ts[Len(ts)])

\* typeof opt === "string" ? opt : opt?.text || opt?.option || ""
optionText(opt) ==
    IF IsString(opt) THEN opt
    ELSE Or(Or(Get(opt, "text"), Get(opt, "option")), Str(<<>>))

\* a variant that compares the texts without trimming them
findIndex_untrimmed(options, correctAnswer) ==
    LET wanted == Or(correctAnswer, Str(<<>>)).v
        hits == {i \in 1..Len(options) : optionText(options[i]).v = wanted}
    IN  IF hits = {} THEN -1
        ELSE (CHOOSE i \in hits : \A j \in hits : i <= j) - 1

\* options.findIndex(opt => optionText.trim() === (correctAnswer || "").trim()),
\* counting from 0; -1 when no option matches
findIndex(options, correctAnswer) ==
    LET wanted == Trim(Or(correctAnswer, Str(<<>>)).v)
        hits == {i \in 1..Len(options) : Trim(optionText(options[i]).v) = wanted}
    IN  IF hits = {} THEN -1
        ELSE (CHOOSE i \in hits : \A j \in hits : i <= j) - 1

\* Array.isArray(options) ? options : []
optionsArray(sourceData) ==
    IF IsArray(Get(sourceData, "options")) THEN Get(sourceData, "options").v ELSE <<>>

\* one entry of formattedOptions; the option at optIdx (from 0) gets the id
\* `opt_${idNumber}`
formattedOption(opt, optIdx, idNumber, correctAnswerIndex) ==
    LET defaultId == Str(TransformText.opt \o NumToStr(idNumber))
        defaultText == Str(TransformText.option \o NumToStr(optIdx + 1))
    IN  IF IsString(opt)
        THEN Obj([id |-> defaultId, text |-> opt,
                  isCorrect |-> Bool(optIdx = correctAnswerIndex)])
        ELSE IF opt.t \in {"object", "array"}
        THEN Obj([id |-> Or(Get(opt, "id"), defaultId),
                  text |-> Or(Or(Get(opt, "text"), Get(opt, "option")), defaultText),
                  isCorrect |-> Bool(optIdx = correctAnswerIndex
                                     \/ Get(opt, "isCorrect") = Bool(TRUE))])
        ELSE Obj([id |-> defaultId, text |-> defaultText, isCorrect |-> Bool(FALSE)])


\* transformCourseForBackend: correctAnswerIndex of the legacy MCQ shape
BackendCorrectAnswerIndex(sourceData) ==
    IF Truthy(Get(sourceData, "correctAnswer"))
    THEN findIndex(optionsArray(sourceData), Get(sourceData, "correctAnswer"))
    ELSE -1

\* transformCourseForBackend: formattedOptions, with ids opt_1, opt_2, ...
BackendFormattedOptions(sourceData) ==
    LET options == optionsArray(sourceData)
    IN  [p \in 1..Len(options) |->
            formattedOption(options[p], p - 1, p, BackendCorrectAnswerIndex(sourceData))]

\* transformCourseForBackend: the MCQ bridging; the legacy shape (question +
\* options) becomes questions[], an existing questions is kept
BackendQuestions(t, sourceData) ==
    LET questions == Get(sourceData, "questions")
    IN  IF /\ ~Truthy(questions)
           /\ Truthy(Get(sourceData, "question"))
           /\ Truthy(Get(sourceData, "options"))
        THEN Arr(<<Obj([id |-> Str(ToText(Get(t, "id")) \o TransformText.q1),
                        question |-> Get(sourceData, "question"),
                        options |-> Arr(BackendFormattedOptions(sourceData))])>>)
        ELSE questions

\* transformCourseForBackend: the body of sortedTemplates.map((t, idx) => ...)
BackendTemplate(t, idx) ==
    LET sourceData == Or(Or(Get(t, "data"), Get(t, "content")), Obj(EmptyRecord))
        content ==
            Coalesce(Coalesce(Coalesce(Get(sourceData, "content"),
                                       Get(sourceData, "description")),
                              Get(sourceData, "body")),
                     Str(<<>>))
        data == Obj([content |-> content,
                     subtitle |-> Or(Get(sourceData, "subtitle"), Undef),
                     videoUrl |-> Or(Get(sourceData, "videoUrl"), Undef),
                     questions |-> Or(BackendQuestions(t, sourceData), Undef)])
    IN  Put(Put(Put(t, "type", Or(Get(t, "type"), Get(t, "templateType"))),
                "order", Num(idx)),
            "data", data)

\* a variant that reads only lockProgression
linearProgression_lockOnly(nav) == Coalesce(Get(nav, "lockProgression"), Bool(FALSE))

\* typeof nav.linearProgression === "boolean" ? nav.linearProgression
\*                                             : (nav.lockProgression ?? false)
linearProgression(nav) ==
    IF IsBoolean(Get(nav, "linearProgression"))
    THEN Get(nav, "linearProgression")
    ELSE Coalesce(Get(nav, "lockProgression"), Bool(FALSE))

\* the two assignments to cloned: language and settings
EnsureDefaults(object) ==
    LET language == IF ~Truthy(Get(object, "language"))
                    THEN Str(TransformText.en) ELSE Get(object, "language")
        settings == Or(Get(object, "settings"),
                       Obj([theme |-> Str(TransformText.default),
                            autoplay |-> Bool(FALSE),
                            duration |-> Undef]))
    IN  Put(Put(object, "language", language), "settings", settings)

\* a variant without the defensive clone: cloned is the argument itself
ClonedIs_argument == "argument"

\* what cloned refers to: the copy JSON.parse(JSON.stringify(course)) makes
ClonedIs == "copy"

\* the object passed to transformCourseForBackend, once it has returned: the
\* assignments reach it only if cloned refers to it
BackendArgumentAfter(course) ==
    IF ClonedIs = "argument" THEN EnsureDefaults(course) ELSE course

\* the object passed to transformCourseForExport, once it has returned: every
\* assignment of the function is to an object it created (transformed, base)
ExportArgumentAfter(course) == course

transformCourseForBackend(course) ==
    LET parsed == JsonClone(course)
        cloned == EnsureDefaults(parsed)
        sourceTemplates ==
            Or(Or(Get(cloned, "templates"), Get(cloned, "pages")), Arr(<<>>))
        sorted == sortedTemplates(sourceTemplates.v)
        nav == Or(Get(cloned, "navigation"), Obj(EmptyRecord))
        version == Get(cloned, "version")
    IN  Obj([courseId |-> Get(cloned, "courseId"),
             title |-> Get(cloned, "title"),
             author |-> Or(Get(cloned, "author"), Str(TransformText.unknown)),
             version |-> IF Truthy(version) /\ IsVersion(version.v)
                         THEN version ELSE Str(TransformText.defaultVersion),
             language |-> Or(Get(cloned, "language"), Str(TransformText.en)),
             templates |-> Arr([i \in 1..Len(sorted) |-> BackendTemplate(sorted[i], i - 1)]),
             assets |-> Or(Get(cloned, "assets"), Arr(<<>>)),
             navigation |-> Obj([allowSkip |-> Coalesce(Get(nav, "allowSkip"), Bool(TRUE)),
                                 showProgress |-> Coalesce(Get(nav, "showProgress"), Bool(TRUE)),
                                 linearProgression |-> linearProgression(nav)]),
             settings |-> Or(Get(cloned, "settings"),
                             Obj([theme |-> Str(TransformText.default),
                                  autoplay |-> Bool(FALSE)]))])

---------------------------------------------------------------------------
(* transformCourseForExport *)

\* x.length, where a value without a length counts as 0
LengthOf(x) == IF x.t \in {"array", "string"} THEN Len(x.v) ELSE 0

\* the legacy conversion: one question from content.question / content.options,
\* with ids opt_0, opt_1, ...
ExportLegacyQuestions(page, content) ==
    LET options == optionsArray(content)
        correctAnswerIndex ==
            IF Truthy(Get(content, "correctAnswer"))
            THEN findIndex(options, Get(content, "correctAnswer"))
            ELSE -1
    IN  Arr(<<Obj([id |-> Str(TransformText.q \o ToText(Get(page, "id"))),
                   question |-> Or(Get(content, "question"),
                                   Str(TransformText.questionMark)),
                   options |-> Arr([p \in 1..Len(options) |->
                                       formattedOption(options[p], p - 1, p - 1,
                                                       correctAnswerIndex)])])>>)

\* questions exist and content.correctAnswer is set: isCorrect of every option
\* of every question is overwritten from the position of content.correctAnswer
\* in content.options
ExportAppliedQuestions(mcqQuestions, content) ==
    LET correctAnswerIndex ==
            findIndex(optionsArray(content), Get(content, "correctAnswer"))
        applied(q) ==
            Put(q, "options",
                Arr([i \in 1..Len(Get(q, "options").v) |->
                        Put(Get(q, "options").v[i], "isCorrect",
                            Bool(i - 1 = correctAnswerIndex))]))
    IN  Arr([k \in 1..Len(mcqQuestions.v) |-> applied(mcqQuestions.v[k])])

\* a variant that synthesizes nothing
ExportPlaceholderQuestions_none(page) == Arr(<<>>)

\* the placeholder question of a page without MCQ data
ExportPlaceholderQuestions(page) ==
    Arr(<<Obj([id |-> Str(TransformText.q \o ToText(Get(page, "id"))),
               question |-> Str(TransformText.sampleQuestion),
               options |-> Arr(<<Obj([id |-> Str(TransformText.opt \o <<"0">>),
                                      text |-> Str(TransformText.option \o <<"1">>),
                                      isCorrect |-> Bool(FALSE)]),
                                 Obj([id |-> Str(TransformText.opt \o <<"1">>),
                                      text |-> Str(TransformText.option \o <<"2">>),
                                      isCorrect |-> Bool(TRUE)])>>)])>>)

\* the questions of an mcq page
ExportQuestions(page, content) ==
    LET questions == Or(Get(content, "questions"), Arr(<<>>))
        mcqQuestions ==
            IF /\ LengthOf(questions) = 0
               /\ Truthy(Get(content, "question"))
               /\ Truthy(Get(content, "options"))
            THEN ExportLegacyQuestions(page, content)
            ELSE IF LengthOf(questions) > 0 /\ Truthy(Get(content, "correctAnswer"))
            THEN ExportAppliedQuestions(questions, content)
            ELSE questions
    IN  IF LengthOf(mcqQuestions) = 0
        THEN ExportPlaceholderQuestions(page)
        ELSE mcqQuestions

\* page.type === "mcq" || page.templateType === "mcq"
IsMcqPage(page) ==
    \/ Get(page, "type") = Str(TransformText.mcq)
    \/ Get(page, "templateType") = Str(TransformText.mcq)

\* the body of sourceTemplates.map((page, index) => ...)
ExportTemplate(page, index) ==
    LET content == Or(Or(Get(page, "data"), Get(page, "content")), Obj(EmptyRecord))
        data ==
            IF IsMcqPage(page)
            THEN Obj([content |-> Or(Get(content, "content"), Str(TransformText.quiz)),
                      questions |-> ExportQuestions(page, content)])
            ELSE Obj([content |-> Or(Or(Or(Get(content, "content"),
                                           Get(content, "template_name")),
                                        Get(content, "body")),
                                     Str(TransformText.content)),
                      subtitle |-> Or(Get(content, "subtitle"), Undef),
                      videoUrl |-> Or(Get(content, "videoUrl"), Undef)])
    IN  Obj([id |-> Get(page, "id"),
             type |-> Or(Get(page, "type"), Get(page, "templateType")),
             order |-> Num(index),
             title |-> Get(page, "title"),
             data |-> data])

transformCourseForExport(course) ==
    LET sourceTemplates ==
            Or(Or(Get(course, "templates"), Get(course, "pages")), Arr(<<>>))
    IN  Obj([courseId |-> Get(course, "courseId"),
             title |-> Get(course, "title"),
             author |-> Or(Get(course, "author"), Str(TransformText.unknownAuthor)),
             language |-> Or(Get(course, "language"), Str(TransformText.en)),
             version |-> Or(Get(course, "version"), Str(TransformText.defaultVersion)),
             templates |-> Arr([i \in 1..Len(sourceTemplates.v) |->
                                   ExportTemplate(sourceTemplates.v[i], i - 1)])])

---------------------------------------------------------------------------
(* Courses handed to the transforms: the editor shape (pages / templateType  *)
(* / content) and the API shape (templates / type / data)                    *)

\* a course has at most this many pages
MaxPages == 3
\* a legacy MCQ page has at most this many options
MaxOptions == 2

Shapes == {"pages", "templates"}

ShapedPage(shape, id, kind, order, body) ==
    IF shape = "pages"
    THEN Obj([id |-> Str(id), templateType |-> Str(kind), title |-> Str(<<"Page">>),
              order |-> order, content |-> body])
    ELSE Obj([id |-> Str(id), type |-> Str(kind), title |-> Str(<<"Page">>),
              order |-> order, data |-> body])

BaseCourse ==
    Obj([courseId |-> Str(<<"c", "1">>), title |-> Str(<<"T">>), author |-> Str(<<"A">>),
         version |-> Str(<<"1", ".", "0", ".", "0">>),
         navigation |-> Obj([allowSkip |-> Bool(TRUE), showProgress |-> Bool(TRUE),
                             lockProgression |-> Bool(FALSE)])])

ShapedCourse(shape, base, pages) == Put(base, shape, Arr(pages))

\* order values: missing, duplicates and gaps
OrderValues == {Undef, Num(-1), Num(0), Num(2), Num(5)}
OrderLists == SeqsUpTo(OrderValues, MaxPages)

\* the page at a position of an ordering course
PositionKinds ==
    <<TemplateText.contentText, TemplateText.mcq, TemplateText.welcome, InputText.summary>>
PositionBodies ==
    <<Obj([body |-> Str(<<"b">>)]),
      Obj([question |-> Str(<<"Q">>), options |-> Arr(<<Str(<<"A">>), Str(<<"B">>)>>),
           correctAnswer |-> Str(<<"B">>)]),
      Obj([title |-> Str(<<"w">>), subtitle |-> Str(<<"s">>), description |-> Str(<<"d">>)]),
      Obj([content |-> Str(<<"c">>), videoUrl |-> Str(<<"u">>)])>>

PageId(i) == <<"p">> \o NumToStr(i)

OrderingCourses ==
    {ShapedCourse(shape, BaseCourse,
                  [i \in 1..Len(orders) |->
                      ShapedPage(shape, PageId(i), PositionKinds[((i - 1) % 4) + 1],
                                 orders[i], PositionBodies[((i - 1) % 4) + 1])]) :
        shape \in Shapes, orders \in OrderLists}

\* legacy MCQ content: question, options: string[], correctAnswer
OptionTexts == {Str(<<>>), Str(<<"A">>), Str(<<"B">>), Str(<<" ", "B", " ">>)}
OptionLists == SeqsUpTo(OptionTexts, MaxOptions)
Questions == {Undef, Str(<<>>), Str(<<"Q">>)}
Answers ==
    {Undef, Str(<<>>), Str(<<" ">>), Str(<<"B">>), Str(<<"B", " ">>), Str(<<"b">>),
     Str(<<"C">>)}

LegacyBodies ==
    {Obj([question |-> question, options |-> options, correctAnswer |-> answer]) :
        question \in Questions,
        options \in {Undef} \cup {Arr(list) : list \in OptionLists},
        answer \in Answers}

\* normalized MCQ content: questions[]
Option(id, text, isCorrect) ==
    Obj([id |-> Str(id), text |-> Str(text), isCorrect |-> Bool(isCorrect)])
QuestionAB ==
    Obj([id |-> Str(<<"q", "1">>), question |-> Str(<<"Q">>),
         options |-> Arr(<<Option(<<"a">>, <<"A">>, FALSE), Option(<<"b">>, <<"B">>, TRUE)>>)])
QuestionCD ==
    Obj([id |-> Str(<<"q", "2">>), question |-> Str(<<"R">>),
         options |-> Arr(<<Option(<<"c">>, <<"C">>, TRUE), Option(<<"d">>, <<"D">>, FALSE)>>)])

NormalizedBodies ==
    {Obj([questions |-> Arr(<<QuestionAB>>)]),
     Obj([questions |-> Arr(<<QuestionAB, QuestionCD>>), content |-> Str(<<"c">>)]),
     Obj([questions |-> Arr(<<QuestionAB>>),
          options |-> Arr(<<Str(<<"A">>), Str(<<"B">>)>>),
          correctAnswer |-> Str(<<"A">>)]),
     Obj([questions |-> Arr(<<>>)]),
     \* legacy content whose options are objects, or null
     Obj([question |-> Str(<<"Q">>),
          options |-> Arr(<<Obj([text |-> Str(<<"A">>)]),
                            Obj([option |-> Str(<<"B">>), isCorrect |-> Bool(TRUE)]),
                            Null>>),
          correctAnswer |-> Str(<<"A">>)])}

McqCourses ==
    {ShapedCourse(shape, BaseCourse,
                  <<ShapedPage(shape, PageId(1), TemplateText.mcq, Num(0), body)>>) :
        shape \in Shapes, body \in LegacyBodies \cup NormalizedBodies \cup {Undef}}

\* the course-level fields the transforms default
Navigations ==
    {Undef,
     Obj([lockProgression |-> Bool(TRUE)]),
     Obj([lockProgression |-> Bool(FALSE)]),
     Obj([linearProgression |-> Bool(TRUE), lockProgression |-> Bool(FALSE)]),
     Obj([allowSkip |-> Bool(FALSE), showProgress |-> Bool(FALSE),
          linearProgression |-> Bool(FALSE)])}
Versions ==
    {Undef, Str(<<"1", ".", "0", ".", "0">>), Str(<<"1", ".", "0">>),
     Str(<<"v", "1", ".", "0", ".", "0">>), Str(<<"1", "2", ".", "3", ".", "4", "5">>)}
Authors == {Undef, Str(<<>>), Str(<<"A">>)}
SettingsValues ==
    {Undef, Obj([theme |-> Str(<<"d", "a", "r", "k">>), autoplay |-> Bool(TRUE),
                 duration |-> Num(5)])}
Languages == {Undef, Str(<<"f", "r">>)}

FieldCourses ==
    {ShapedCourse(shape,
                  Obj([courseId |-> Str(<<"c", "1">>), title |-> Str(<<"T">>),
                       author |-> author, version |-> version, language |-> language,
                       navigation |-> navigation, settings |-> settings]),
                  <<ShapedPage(shape, PageId(1), TemplateText.contentText, Num(0),
                               Obj([body |-> Str(<<"b">>)]))>>) :
        shape \in Shapes, author \in Authors, version \in Versions,
        language \in Languages, navigation \in Navigations, settings \in SettingsValues}

\* the courses of the export tests
ExportTestPage(id, question, options, correctAnswer) ==
    Obj([id |-> Str(id), templateType |-> Str(TemplateText.mcq),
         title |-> Str(<<"Page">>), order |-> Num(0),
         content |-> Obj([question |-> Str(question),
                          options |-> Arr([i \in 1..Len(options) |-> Str(options[i])]),
                          correctAnswer |-> Str(correctAnswer)]),
         isDraft |-> Bool(TRUE), lastModified |-> Str(<<"now">>)])

CapitalOfFrance ==
    <<"W", "h", "a", "t", " ", "i", "s", " ", "t", "h", "e", " ", "c", "a", "p", "i", "t", "a", "l", " ", "o", "f", " ", "F", "r", "a", "n", "c", "e", "?">>
Capitals ==
    <<<<"L", "o", "n", "d", "o", "n">>, <<"P", "a", "r", "i", "s">>,
      <<"B", "e", "r", "l", "i", "n">>, <<"M", "a", "d", "r", "i", "d">>>>
FourOptions ==
    <<<<"O", "p", "t", "i", "o", "n", " ", "1">>, <<"O", "p", "t", "i", "o", "n", " ", "2">>,
      <<"O", "p", "t", "i", "o", "n", " ", "3">>, <<"O", "p", "t", "i", "o", "n", " ", "4">>>>

ExportTestCourse1 ==
    Obj([courseId |-> Str(<<"t", "e", "s", "t", "-", "c", "o", "u", "r", "s", "e">>),
         title |-> Str(<<"T">>),
         pages |-> Arr(<<ExportTestPage(<<"m", "c", "q", "-", "p", "a", "g", "e", "-", "1">>,
                                        CapitalOfFrance, Capitals, <<"B">>)>>)])
ExportTestCourse2 ==
    Obj([courseId |-> Str(<<"t", "e", "s", "t", "-", "c", "o", "u", "r", "s", "e", "-", "2">>),
         title |-> Str(<<"T">>),
         pages |-> Arr(<<ExportTestPage(<<"m", "c", "q", "-", "p", "a", "g", "e", "-", "2">>,
                                        <<"e">>, FourOptions, <<"A">>)>>)])

\* the course of the third export test: questions[] whose flags are all
\* false, a top-level correctAnswer and no top-level options
ExportTestCourse3 ==
    LET pageId == <<"p", "a", "g", "e", "_", "3">>
        option(i) == Obj([id |-> Str(TransformText.opt \o NumToStr(i)),
                          text |-> Str(<<"f">>), isCorrect |-> Bool(FALSE)])
    IN  Obj([courseId |-> Str(<<"t", "e", "s", "t", "-", "c", "o", "u", "r", "s", "e", "-", "3">>),
             title |-> Str(<<"T">>),
             pages |-> Arr(<<Obj([id |-> Str(pageId),
                                  templateType |-> Str(TemplateText.mcq),
                                  title |-> Str(<<"Page">>), order |-> Num(2),
                                  content |-> Obj([content |-> Str(TransformText.quiz),
                                                   correctAnswer |-> Str(<<"B">>),
                                                   questions |-> Arr(<<Obj([id |-> Str(TransformText.q \o pageId),
                                                                            question |-> Str(<<"f">>),
                                                                            options |-> Arr([i \in 1..4 |-> option(i - 1)])])>>)]),
                                  isDraft |-> Bool(TRUE),
                                  lastModified |-> Str(<<"now">>)])>>)])

\* a course with neither pages nor templates
NoPagesCourse == Obj([title |-> Str(<<"T">>)])

\* pages that carry both type and templateType, both data and content, and a
\* course that carries both templates and pages
BothShapesPage(id, type, templateType, order, data, content) ==
    Obj([id |-> Str(id), type |-> Str(type), templateType |-> Str(templateType),
         title |-> Str(<<"Page">>), order |-> order, data |-> data, content |-> content])
BothShapesCourse ==
    LET mcqData == Obj([question |-> Str(<<"Q">>),
                        options |-> Arr(<<Str(<<"A">>), Str(<<"B">>)>>),
                        correctAnswer |-> Str(<<"A">>)])
        text == Obj([body |-> Str(<<"b">>), subtitle |-> Str(<<"s">>)])
        pages == <<BothShapesPage(PageId(1), TemplateText.welcome, TemplateText.mcq,
                                  Num(1), mcqData, text),
                   BothShapesPage(PageId(2), TemplateText.mcq, TemplateText.contentText,
                                  Num(0), text, mcqData)>>
    IN  Put(Put(BaseCourse, "templates", Arr(pages)),
            "pages", Arr(<<pages[2]>>))

TransformCourses ==
    OrderingCourses \cup McqCourses \cup FieldCourses
        \cup {ExportTestCourse1, ExportTestCourse2, ExportTestCourse3, NoPagesCourse,
              BothShapesCourse}

---------------------------------------------------------------------------
(* The transforms applied to a course *)

TransformForBackend ==
    /\ tPc = "idle"
    /\ tOut' = transformCourseForBackend(tIn)
    /\ tIn' = BackendArgumentAfter(tIn)
    /\ tPc' = "backend"
    /\ UNCHANGED <<validators, mockErrors, now, calls, fieldCall, ctx>>

\* the output of transformCourseForBackend handed to it again
TransformBackendAgain ==
    /\ tPc = "backend"
    /\ tOut' = transformCourseForBackend(tOut)
    /\ tPc' = "backendTwice"
    /\ UNCHANGED <<validators, mockErrors, now, calls, fieldCall, tIn, ctx>>

TransformForExport ==
    /\ tPc = "idle"
    /\ tOut' = transformCourseForExport(tIn)
    /\ tIn' = ExportArgumentAfter(tIn)
    /\ tPc' = "export"
    /\ UNCHANGED <<validators, mockErrors, now, calls, fieldCall, ctx>>

InitTransform ==
    /\ validators = DefaultValidators
    /\ mockErrors = <<>>
    /\ calls = [inv \in 1..1 |-> IdleCall]
    /\ now = 0
    /\ fieldCall = NoFieldCall
    /\ tIn \in TransformCourses
    /\ tOut = Undef
    /\ tPc = "idle"
    /\ ctx = Undef

NextTransform ==
    \/ TransformForBackend
    \/ TransformBackendAgain
    \/ TransformForExport

SpecTransform == InitTransform /\ [][NextTransform]_vars

---------------------------------------------------------------------------
(* Claims about the transforms *)

\* the pages of a course, from whichever of templates / pages it carries
SourcePages(course) ==
    Or(Or(Get(course, "templates"), Get(course, "pages")), Arr(<<>>)).v

\* the payload of a page, from whichever of data / content it carries
SourceData(page) == Or(Or(Get(page, "data"), Get(page, "content")), Obj(EmptyRecord))

\* the templates a transform returned
OutTemplates == Get(tOut, "templates").v

\* the order value of an input page, a missing one counting as 0
InputOrder(page) ==
    IF IsNullish(Get(page, "order")) THEN 0 ELSE Get(page, "order").v

OrderPermutations(n) ==
    {p \in [1..n -> 1..n] : \A i, j \in 1..n : p[i] = p[j] => i = j}

\* the output template carries the input page: every property of the page but
\* type, order and data is unchanged
SamePage(out, in) ==
    \A k \in DOMAIN in.v \ {"type", "order", "data"} : Get(out, k) = in.v[k]

\* C6: transformCourseForBackend returns as many templates as the course has
\* pages, with order 0..n-1 by position, arranged by ascending input order,
\* pages of equal input order in their input sequence; none dropped, none
\* duplicated
C6_SequentialStableOrder ==
    tPc = "backend" =>
        LET in == SourcePages(tIn)
            n == Len(in)
        IN  /\ Len(OutTemplates) = n
            /\ \A i \in 1..n : Get(OutTemplates[i], "order") = Num(i - 1)
            /\ \E p \in OrderPermutations(n) :
                /\ \A i \in 1..n : SamePage(OutTemplates[i], in[p[i]])
                /\ \A i, j \in 1..n :
                      i < j =>
                        \/ InputOrder(in[p[i]]) < InputOrder(in[p[j]])
                        \/ /\ InputOrder(in[p[i]]) = InputOrder(in[p[j]])
                           /\ p[i] < p[j]

\* the pages with order values 5, 5, 2 come out as third, first, second
C6_Witness ==
    /\ tPc = "backend"
    /\ Len(SourcePages(tIn)) = 3
    /\ [i \in 1..3 |-> Get(SourcePages(tIn)[i], "order")] = <<Num(5), Num(5), Num(2)>>
    /\ [i \in 1..3 |-> Get(OutTemplates[i], "id")]
         = <<Str(PageId(3)), Str(PageId(1)), Str(PageId(2))>>
    /\ [i \in 1..3 |-> Get(OutTemplates[i], "order")] = <<Num(0), Num(1), Num(2)>>

\* C7: transformCourseForBackend applied to its own output returns that output
C7_Idempotent ==
    [][(tPc = "backend" /\ tPc' = "backendTwice") => tOut' = tOut]_vars

\* a second pass over an editor-shape course whose pages the first pass
\* reordered, one of them a bridged legacy MCQ page
C7_Witness ==
    /\ tPc = "backendTwice"
    /\ Get(tIn, "pages") # Undef
    /\ Len(SourcePages(tIn)) = 3
    /\ Get(OutTemplates[1], "id") = Str(PageId(3))
    /\ \E i \in 1..3 : Get(Get(OutTemplates[i], "data"), "questions") # Undef

\* a legacy MCQ payload: question string, options: string[], correctAnswer
\* string, no questions array
IsLegacyMcq(sourceData) ==
    /\ Get(sourceData, "questions") = Undef
    /\ IsString(Get(sourceData, "question"))
    /\ IsString(Get(sourceData, "correctAnswer"))
    /\ IsArray(Get(sourceData, "options"))
    /\ \A i \in 1..Len(Get(sourceData, "options").v) :
          IsString(Get(sourceData, "options").v[i])

\* the positions of the options whose trimmed text is the trimmed correctAnswer
Matching(sourceData) ==
    {j \in 1..Len(Get(sourceData, "options").v) :
        Trim(Get(sourceData, "options").v[j].v) = Trim(Get(sourceData, "correctAnswer").v)}

\* the positions of the options of a question marked correct
MarkedCorrect(question) ==
    {j \in 1..Len(Get(question, "options").v) :
        Get(Get(question, "options").v[j], "isCorrect") = Bool(TRUE)}

\* questions is a single question whose options carry the texts of the
\* payload's options in their order
OneQuestionKeepingTexts(questions, sourceData) ==
    /\ IsArray(questions)
    /\ Len(questions.v) = 1
    /\ IsArray(Get(questions.v[1], "options"))
    /\ Len(Get(questions.v[1], "options").v) = Len(Get(sourceData, "options").v)
    /\ \A j \in 1..Len(Get(sourceData, "options").v) :
          Get(Get(questions.v[1], "options").v[j], "text") = Get(sourceData, "options").v[j]

\* the questions transformCourseForBackend returned for an input page
BackendQuestionsOf(page) ==
    {Get(Get(OutTemplates[k], "data"), "questions") :
        k \in {q \in 1..Len(OutTemplates) : Get(OutTemplates[q], "id") = Get(page, "id")}}

\* C8 as stated: every legacy MCQ page yields one question keeping the option
\* texts, with isCorrect on exactly one option whose trimmed text equals the
\* trimmed correctAnswer when there is one, and on none otherwise
C8_LegacyMcqAsStated ==
    tPc = "backend" =>
        \A i \in 1..Len(SourcePages(tIn)) :
            LET page == SourcePages(tIn)[i]
                sourceData == SourceData(page)
            IN  IsLegacyMcq(sourceData) =>
                    \A questions \in BackendQuestionsOf(page) :
                        /\ OneQuestionKeepingTexts(questions, sourceData)
                        /\ IF Matching(sourceData) # {}
                           THEN /\ Cardinality(MarkedCorrect(questions.v[1])) = 1
                                /\ MarkedCorrect(questions.v[1]) \subseteq Matching(sourceData)
                           ELSE MarkedCorrect(questions.v[1]) = {}

\* C8 amended: a legacy MCQ page with a non-empty question yields one question
\* keeping the option texts, with isCorrect on exactly the first option whose
\* trimmed text equals the trimmed correctAnswer when correctAnswer is
\* non-empty and such an option exists, and on none otherwise; with an empty
\* question no question is produced
C8_LegacyMcqBridged ==
    tPc = "backend" =>
        \A i \in 1..Len(SourcePages(tIn)) :
            LET page == SourcePages(tIn)[i]
                sourceData == SourceData(page)
                matching == Matching(sourceData)
            IN  IsLegacyMcq(sourceData) =>
                    \A questions \in BackendQuestionsOf(page) :
                        IF Get(sourceData, "question") = Str(<<>>)
                        THEN questions = Undef
                        ELSE /\ OneQuestionKeepingTexts(questions, sourceData)
                             /\ MarkedCorrect(questions.v[1]) =
                                  IF Get(sourceData, "correctAnswer") # Str(<<>>)
                                     /\ matching # {}
                                  THEN {CHOOSE j \in matching : \A k \in matching : j <= k}
                                  ELSE {}

\* options "B" and " B " with correctAnswer "B ": both match after trimming,
\* the first is marked
C8_Witness ==
    /\ tPc = "backend"
    /\ Len(SourcePages(tIn)) = 1
    /\ LET sourceData == SourceData(SourcePages(tIn)[1])
       IN  /\ IsLegacyMcq(sourceData)
           /\ Get(sourceData, "question") = Str(<<"Q">>)
           /\ Get(sourceData, "options") = Arr(<<Str(<<"B">>), Str(<<" ", "B", " ">>)>>)
           /\ Get(sourceData, "correctAnswer") = Str(<<"B", " ">>)
    /\ MarkedCorrect(Get(Get(OutTemplates[1], "data"), "questions").v[1]) = {1}

\* a page of type mcq without question, options or questions
HasNoMcqData(page) ==
    /\ Get(SourceData(page), "questions") \in {Undef, Arr(<<>>)}
    /\ Get(SourceData(page), "question") = Undef
    /\ Get(SourceData(page), "options") = Undef

\* C9: transformCourseForExport returns a non-empty questions array for every
\* mcq page, of length 1 with exactly one option marked correct when the page
\* has no question/options data; transformCourseForBackend returns no question
\* for such a page
C9_ExportNeverEmptyQuestions ==
    /\ tPc = "export" =>
          \A i \in 1..Len(SourcePages(tIn)) :
              LET page == SourcePages(tIn)[i]
                  questions == Get(Get(OutTemplates[i], "data"), "questions")
              IN  IsMcqPage(page) =>
                      /\ IsArray(questions)
                      /\ Len(questions.v) >= 1
                      /\ HasNoMcqData(page) =>
                            /\ Len(questions.v) = 1
                            /\ Cardinality(MarkedCorrect(questions.v[1])) = 1
    /\ tPc = "backend" =>
          \A i \in 1..Len(SourcePages(tIn)) :
              LET page == SourcePages(tIn)[i]
              IN  IsMcqPage(page) /\ HasNoMcqData(page) =>
                      \A questions \in BackendQuestionsOf(page) : LengthOf(questions) = 0

\* an mcq page without a payload is exported with the placeholder question
C9_Witness ==
    /\ tPc = "export"
    /\ Len(SourcePages(tIn)) = 1
    /\ IsMcqPage(SourcePages(tIn)[1])
    /\ SourceData(SourcePages(tIn)[1]) = Obj(EmptyRecord)
    /\ Get(Get(Get(OutTemplates[1], "data"), "questions").v[1], "question")
         = Str(TransformText.sampleQuestion)

\* the answer letters
Letters == <<"A", "B", "C", "D">>

\* C10: transformCourseForExport on a legacy MCQ page whose correctAnswer is an
\* answer letter returns one question with the user's question text, options
\* {id: opt_i, text} in input order, isCorrect exactly at the letter's position
C10_LetterMarksPosition ==
    tPc = "export" =>
        \A i \in 1..Len(SourcePages(tIn)) :
            LET page == SourcePages(tIn)[i]
                sourceData == SourceData(page)
                options == Get(sourceData, "options").v
                questions == Get(Get(OutTemplates[i], "data"), "questions")
                isLetter(letter) ==
                    /\ IsMcqPage(page)
                    /\ IsLegacyMcq(sourceData)
                    /\ Get(sourceData, "question") # Str(<<>>)
                    /\ letter <= Len(options)
                    /\ Get(sourceData, "correctAnswer") = Str(<<Letters[letter]>>)
            IN  \A letter \in 1..4 :
                    isLetter(letter)
                    => /\ OneQuestionKeepingTexts(questions, sourceData)
                       /\ Get(questions.v[1], "question") = Get(sourceData, "question")
                       /\ Get(questions.v[1], "question") # Str(TransformText.sampleQuestion)
                       /\ \A j \in 1..Len(options) :
                             Get(Get(questions.v[1], "options").v[j], "id")
                               = Str(TransformText.opt \o NumToStr(j - 1))
                       /\ MarkedCorrect(questions.v[1]) = {letter}

\* the positions a correctAnswer designates among the options of a question:
\* the options whose trimmed text it equals, and the position of an answer
\* letter
Designated(question, correctAnswer) ==
    {j \in 1..Len(Get(question, "options").v) :
        \/ Trim(Get(Get(question, "options").v[j], "text").v) = Trim(correctAnswer.v)
        \/ j <= Len(Letters) /\ correctAnswer = Str(<<Letters[j]>>)}

\* C11: for an mcq page with a questions[] array and a top-level
\* correctAnswer, transformCourseForExport keeps the first question's text and
\* its options' ids and texts, and sets isCorrect on exactly the option the
\* correctAnswer designates
C11_CorrectAnswerOverwritesFlags ==
    tPc = "export" =>
        \A i \in 1..Len(SourcePages(tIn)) :
            LET page == SourcePages(tIn)[i]
                sourceData == SourceData(page)
                given == Get(sourceData, "questions")
                correctAnswer == Get(sourceData, "correctAnswer")
                questions == Get(Get(OutTemplates[i], "data"), "questions")
                applies ==
                    /\ IsMcqPage(page)
                    /\ IsArray(given)
                    /\ Len(given.v) >= 1
                    /\ IsString(correctAnswer)
                    /\ correctAnswer # Str(<<>>)
                kept ==
                    /\ IsArray(questions)
                    /\ Len(questions.v) >= 1
                    /\ Get(questions.v[1], "question") = Get(given.v[1], "question")
                    /\ Len(Get(questions.v[1], "options").v) = Len(Get(given.v[1], "options").v)
                    /\ \A j \in 1..Len(Get(given.v[1], "options").v) :
                          /\ Get(Get(questions.v[1], "options").v[j], "id")
                               = Get(Get(given.v[1], "options").v[j], "id")
                          /\ Get(Get(questions.v[1], "options").v[j], "text")
                               = Get(Get(given.v[1], "options").v[j], "text")
                marked ==
                    Designated(given.v[1], correctAnswer) # {} =>
                        \E d \in Designated(given.v[1], correctAnswer) :
                            MarkedCorrect(questions.v[1]) = {d}
            IN  applies => (kept /\ marked)

---------------------------------------------------------------------------
(* Client-side validation: utils/validation.ts                               *)

\* a ValidationError of the client: { field, message }
ClientError(field, message) == Obj([field |-> Str(field), message |-> Str(message)])

\* a course may hold at most this many templates
MaxTemplates == 100

\* the order values that are numbers, in template sequence
NumericOrders(templates) ==
    LET RECURSIVE Collect(_)
        Collect(n) ==
            IF n = 0 THEN <<>>
            ELSE IF Get(templates[n], "order").t = "number"
                 THEN Append(Collect(n - 1), Get(templates[n], "order").v)
                 ELSE Collect(n - 1)
    IN  Collect(Len(templates))

\* Array.from(uniqueOrders).sort((a, b) => a - b), as the ascending sequence
SortedOrders(orders) ==
    LET values == {orders[i] : i \in 1..Len(orders)}
        RECURSIVE Ascending(_)
        Ascending(S) ==
            IF S = {} THEN <<>>
            ELSE LET least == CHOOSE x \in S : \A y \in S : x <= y
                 IN  <<least>> \o Ascending(S \ {least})
    IN  Ascending(values)

validateTemplateOrdering(templates) ==
    IF ~IsArray(templates)
    THEN <<ClientError(<<"templates">>, <<"Templates must be an array">>)>>
    ELSE LET orders == NumericOrders(templates.v)
             sortedOrders == SortedOrders(orders)
             gaps == {i \in 1..Len(sortedOrders) : sortedOrders[i] # i - 1}
             duplicate ==
                 IF Len(orders) # Len(sortedOrders)
                 THEN <<ClientError(<<"templates.order">>,
                                    <<"Template orders must be unique">>)>>
                 ELSE <<>>
             missing ==
                 IF gaps # {}
                 THEN <<ClientError(<<"templates.order">>,
                                    <<"Template orders must be sequential starting from 0. Missing order: ">>
                                        \o NumToStr((CHOOSE i \in gaps : \A j \in gaps : i <= j) - 1))>>
                 ELSE <<>>
         IN  duplicate \o missing

\* the errors validateMCQData reports for one option
McqOptionErrors(option, index) ==
    (IF ~Truthy(Get(option, "id")) \/ ~IsString(Get(option, "id"))
     THEN <<ClientError(<<"mcq.options[">> \o NumToStr(index) \o <<"].id">>,
                        <<"Option ID is required and must be a string">>)>>
     ELSE <<>>)
    \o (IF ~Truthy(Get(option, "text")) \/ ~IsString(Get(option, "text"))
        THEN <<ClientError(<<"mcq.options[">> \o NumToStr(index) \o <<"].text">>,
                           <<"Option text is required and must be a string">>)>>
        ELSE <<>>)
    \o (IF ~IsBoolean(Get(option, "isCorrect"))
        THEN <<ClientError(<<"mcq.options[">> \o NumToStr(index) \o <<"].isCorrect">>,
                           <<"Option isCorrect must be a boolean">>)>>
        ELSE <<>>)

\* validateMCQData reads a property of mcqData, and of each option
validateMCQDataThrows(mcqData) ==
    \/ IsNullish(mcqData)
    \/ /\ IsArray(Get(mcqData, "options"))
       /\ Len(Get(mcqData, "options").v) >= 2
       /\ \E i \in 1..Len(Get(mcqData, "options").v) :
             IsNullish(Get(mcqData, "options").v[i])

validateMCQData(mcqData) ==
    LET options == Get(mcqData, "options")
        question ==
            IF ~Truthy(Get(mcqData, "question")) \/ ~IsString(Get(mcqData, "question"))
            THEN <<ClientError(<<"mcq.question">>,
                               <<"MCQ question is required and must be a string">>)>>
            ELSE <<>>
    IN  IF ~IsArray(options) \/ Len(options.v) < 2
        THEN question
               \o <<ClientError(<<"mcq.options">>, <<"MCQ must have at least 2 options">>)>>
        ELSE LET correctAnswers ==
                     {i \in 1..Len(options.v) : Get(options.v[i], "isCorrect") = Bool(TRUE)}
                 RECURSIVE Each(_)
                 Each(n) ==
                     IF n = 0 THEN <<>>
                     ELSE Each(n - 1) \o McqOptionErrors(options.v[n], n - 1)
             IN  question
                   \o (IF Cardinality(correctAnswers) # 1
                       THEN <<ClientError(<<"mcq.options">>,
                                          <<"MCQ must have exactly one correct answer">>)>>
                       ELSE <<>>)
                   \o Each(Len(options.v))

\* the templates validateCourseFull hands to validateMCQData
McqTemplates(course) ==
    LET templates == Get(course, "templates").v
        RECURSIVE Keep(_)
        Keep(n) ==
            IF n = 0 THEN <<>>
            ELSE IF \/ Get(templates[n], "templateType") = Str(TransformText.mcq)
                    \/ Get(templates[n], "type") = Str(TransformText.mcq)
                 THEN Append(Keep(n - 1), templates[n])
                 ELSE Keep(n - 1)
    IN  Keep(Len(templates))

\* validateCourseFull throws when validateMCQData does
validateCourseFullThrows(course) ==
    /\ IsArray(Get(course, "templates"))
    /\ \E i \in 1..Len(McqTemplates(course)) :
          validateMCQDataThrows(Get(McqTemplates(course)[i], "data"))

\* validateCourseFull(course).errors; schemaErrors is what the JSON Schema
\* validator reports for transformCourseForBackend(course)
validateCourseFull(course, schemaErrors) ==
    LET templates == Get(course, "templates")
        business ==
            IF Truthy(templates)
            THEN LET mcq == McqTemplates(course)
                     RECURSIVE Each(_)
                     Each(n) ==
                         IF n = 0 THEN <<>>
                         ELSE Each(n - 1) \o validateMCQData(Get(mcq[n], "data"))
                 IN  validateTemplateOrdering(templates) \o Each(Len(mcq))
            ELSE <<>>
        count ==
            IF Truthy(templates) /\ LengthExceeds(templates, MaxTemplates)
            THEN <<ClientError(<<"templates">>,
                               <<"Course cannot have more than 100 templates">>)>>
            ELSE <<>>
    IN  schemaErrors \o business \o count

---------------------------------------------------------------------------
(* apiService.validateCourse: services/api.ts                                *)

\* what the HTTP client hands back: a 2xx response, an error carrying the
\* response of another status, or an error without a response (timeout,
\* network failure)
HttpOk(data) == [kind |-> "ok", status |-> 200, data |-> data]
HttpError(status, data) == [kind |-> "error", status |-> status, data |-> data]
HttpNoResponse == [kind |-> "none", status |-> 0, data |-> Undef]

\* the promise an async function returns
Resolved(value) == [settled |-> "resolved", value |-> value]
RejectedWith(message) == [settled |-> "rejected", value |-> Str(message)]
Unsettled == [settled |-> "pending", value |-> Undef]

ApiText ==
    [validation |-> <<"validation">>,
     course |-> <<"course">>,
     validationError |-> <<"Validation error">>,
     unknown |-> <<"unknown">>,
     failed |-> <<"Failed to validate course">>,
     typeError |-> <<"TypeError">>]

\* JSON.stringify of a value; the properties of an object in the order CHOOSE
\* fixes (the objects it is applied to have at most one property)
RECURSIVE JsonStringify(_)
JsonStringify(x) ==
    LET RECURSIVE Members(_)
        Members(keys) ==
            IF keys = {} THEN <<>>
            ELSE LET k == CHOOSE q \in keys : TRUE
                 IN  <<"\"", k, "\":">> \o JsonStringify(x.v[k])
                       \o (IF keys = {k} THEN <<>> ELSE <<",">> \o Members(keys \ {k}))
        RECURSIVE Elements(_)
        Elements(n) ==
            IF n = 0 THEN <<>>
            ELSE (IF n = 1 THEN <<>> ELSE Elements(n - 1) \o <<",">>)
                   \o JsonStringify(IF x.v[n] = Undef THEN Null ELSE x.v[n])
    IN  CASE x.t = "string" -> <<"\"">> \o x.v \o <<"\"">>
          [] x.t = "number" -> NumToStr(x.v)
          [] x.t = "boolean" -> IF x.v THEN <<"true">> ELSE <<"false">>
          [] x.t = "null" -> <<"null">>
          [] x.t = "array" -> <<"[">> \o Elements(Len(x.v)) \o <<"]">>
          [] x.t = "object" -> <<"{">> \o Members(DOMAIN x.v) \o <<"}">>
          [] OTHER -> <<>>

\* the errors of a 2xx body: validation.errors when it is an array
ResponseErrors(backendData) ==
    LET validationBlock == Or(Get(backendData, "validation"), Obj(EmptyRecord))
    IN  IF IsArray(Get(validationBlock, "errors"))
        THEN Get(validationBlock, "errors").v ELSE <<>>

\* reading backendData.validation, or a property of an entry, throws
validateCourseOkThrows(backendData) ==
    \/ IsNullish(backendData)
    \/ \E i \in 1..Len(ResponseErrors(backendData)) :
          IsNullish(ResponseErrors(backendData)[i])

\* the 2xx branch
validateCourseOk(backendData) ==
    LET validationBlock == Or(Get(backendData, "validation"), Obj(EmptyRecord))
        errors == ResponseErrors(backendData)
    IN  Obj([valid |-> Bool(Truthy(Coalesce(Get(validationBlock, "valid"),
                                            Get(backendData, "success")))),
             errors |-> Arr([i \in 1..Len(errors) |->
                 Obj([field |-> Or(Get(errors[i], "field"), Str(ApiText.validation)),
                      message |-> Or(Get(errors[i], "message"),
                                     Str(JsonStringify(errors[i])))])])])

\* (d.loc && d.loc[d.loc.length - 1]) || "course"
LocField(d) ==
    LET loc == Get(d, "loc")
        last == IF ~Truthy(loc) THEN loc
                ELSE IF IsArray(loc) /\ Len(loc.v) > 0 THEN loc.v[Len(loc.v)]
                ELSE Undef
    IN  Or(last, Str(ApiText.course))

\* raw?.detail || []
Detail(raw) == Or(Get(raw, "detail"), Arr(<<>>))

\* reading d.loc of an entry that is null or undefined throws
validateCourse422Throws(raw) ==
    /\ IsArray(Detail(raw))
    /\ \E i \in 1..Len(Detail(raw).v) : IsNullish(Detail(raw).v[i])

\* the 422 branch
validateCourse422(raw) ==
    LET detail == Detail(raw)
        mapped ==
            IF IsArray(detail)
            THEN [i \in 1..Len(detail.v) |->
                    Obj([field |-> LocField(detail.v[i]),
                         message |-> Or(Get(detail.v[i], "msg"), Str(ApiText.validationError)),
                         type |-> Or(Get(detail.v[i], "type"), Str(ApiText.unknown))])]
            ELSE <<Obj([field |-> Str(ApiText.course),
                        message |-> Or(Get(raw, "detail"), Str(ApiText.validationError)),
                        type |-> Str(ApiText.unknown)])>>
    IN  Obj([valid |-> Bool(FALSE), errors |-> Arr(mapped)])

\* a variant that resolves with no errors whatever the failure
apiValidateCourse_swallow(response) ==
    IF response.kind = "ok" /\ ~validateCourseOkThrows(response.data)
    THEN Resolved(validateCourseOk(response.data))
    ELSE Resolved(Obj([valid |-> Bool(FALSE), errors |-> Arr(<<>>)]))

\* apiService.validateCourse, given what the HTTP client handed back
apiValidateCourse(response) ==
    IF response.kind = "ok" /\ ~validateCourseOkThrows(response.data)
    THEN Resolved(validateCourseOk(response.data))
    ELSE IF response.kind = "error" /\ response.status = 422
    THEN IF validateCourse422Throws(response.data)
         THEN RejectedWith(ApiText.typeError)
         ELSE Resolved(validateCourse422(response.data))
    ELSE RejectedWith(ApiText.failed)

---------------------------------------------------------------------------
(* CourseProvider: contexts/CourseContext (part_011)                        *)

ContextText ==
    [failed |-> <<"Failed to validate course">>,
     refused |-> <<"Course validation failed. Please fix errors before saving.">>,
     saveFailed |-> <<"Failed to save course">>,
     valueError |-> <<"value_error">>,
     typeError |-> <<"type_error">>,
     businessRuleError |-> <<"business_rule_error">>]

\* the state the provider starts from, around the course it is given
initialState(course) ==
    [course |-> course,
     editorState |-> [currentTemplate |-> 0,
                      isPreviewMode |-> FALSE,
                      isDirty |-> FALSE,
                      validationErrors |-> <<>>],
     isLoading |-> FALSE,
     error |-> Null,
     validationErrors |-> <<>>]

validateCourseData(course) ==
    Truthy(Get(course, "courseId")) /\ Truthy(Get(course, "title"))

validateTemplateData(template) ==
    Truthy(Get(template, "id")) /\ Truthy(Get(template, "type"))

\* index >= 0 && index < templates.length, the index 0-based
validateTemplateIndex(index, templates) == index >= 0 /\ index < Len(templates)

\* createDefaultCourse: one welcome template
createDefaultCourse ==
    Obj([courseId |-> Str(<<"course_">>), title |-> Str(<<"New Course">>),
         templates |-> Arr(<<Obj([id |-> Str(<<"template_welcome">>),
                                  type |-> Str(<<"welcome">>),
                                  title |-> Str(<<"Welcome">>),
                                  order |-> Num(0)])>>)])

\* list.map((entry, index) => ({...entry, order: index}))
Resequenced(list) == [i \in 1..Len(list) |-> Put(list[i], "order", Num(i - 1))]

\* list.filter((_, index) => index !== removed), the index 0-based
WithoutIndex(list, removed) ==
    SubSeq(list, 1, removed) \o SubSeq(list, removed + 2, Len(list))

\* const [removed] = list.splice(fromIndex, 1); list.splice(toIndex, 0, removed)
Moved(list, fromIndex, toIndex) ==
    LET rest == WithoutIndex(list, fromIndex)
    IN  SubSeq(rest, 1, toIndex) \o <<list[fromIndex + 1]>>
            \o SubSeq(rest, toIndex + 1, Len(rest))

\* {...state.course, templates, updatedAt: new Date().toISOString()}
WithTemplates(course, templates) ==
    Put(Put(course, "templates", Arr(templates)), "updatedAt", Str(<<"now">>))

\* courseReducer
courseReducer(state, action) ==
    CASE action.type = "SET_COURSE" ->
           IF ~validateCourseData(action.payload) THEN state
           ELSE [state EXCEPT !.course = action.payload,
                              !.editorState.isDirty = FALSE,
                              !.editorState.validationErrors = <<>>]
      [] action.type = "ADD_TEMPLATE" ->
           IF ~validateTemplateData(action.payload) THEN state
           ELSE [state EXCEPT
                   !.course = WithTemplates(@, Append(Get(@, "templates").v, action.payload)),
                   !.editorState.isDirty = TRUE]
      [] action.type = "UPDATE_TEMPLATE" ->
           IF ~validateTemplateIndex(action.payload.index, Get(state.course, "templates").v)
           THEN state
           ELSE IF ~validateTemplateData(action.payload.template) THEN state
           ELSE [state EXCEPT
                   !.course = WithTemplates(@,
                       [Get(@, "templates").v EXCEPT ![action.payload.index + 1] =
                           action.payload.template]),
                   !.editorState.isDirty = TRUE]
      [] action.type = "DELETE_TEMPLATE" ->
           IF ~validateTemplateIndex(action.payload, Get(state.course, "templates").v)
           THEN state
           ELSE IF Len(Get(state.course, "templates").v) <= 1 THEN state
           ELSE LET reorderedTemplates ==
                        Resequenced(WithoutIndex(Get(state.course, "templates").v,
                                                 action.payload))
                    current == state.editorState.currentTemplate
                IN  [state EXCEPT
                       !.course = WithTemplates(@, reorderedTemplates),
                       !.editorState.currentTemplate =
                           IF current < Len(reorderedTemplates) - 1 THEN current
                           ELSE Len(reorderedTemplates) - 1,
                       !.editorState.isDirty = TRUE]
      [] action.type = "REORDER_TEMPLATES" ->
           IF \/ ~validateTemplateIndex(action.payload.fromIndex,
                                        Get(state.course, "templates").v)
              \/ ~validateTemplateIndex(action.payload.toIndex,
                                        Get(state.course, "templates").v)
           THEN state
           ELSE [state EXCEPT
                   !.course = WithTemplates(@,
                       Resequenced(Moved(Get(@, "templates").v, action.payload.fromIndex,
                                         action.payload.toIndex))),
                   !.editorState.currentTemplate = action.payload.toIndex,
                   !.editorState.isDirty = TRUE]
      [] action.type = "SET_CURRENT_TEMPLATE" ->
           IF ~validateTemplateIndex(action.payload, Get(state.course, "templates").v)
           THEN state
           ELSE [state EXCEPT !.editorState.currentTemplate = action.payload]
      [] action.type = "RESET_COURSE" -> initialState(createDefaultCourse)
      [] action.type = "SET_DIRTY" ->
           [state EXCEPT !.editorState.isDirty = action.payload]
      [] action.type = "SET_VALIDATION_ERRORS" ->
           [state EXCEPT !.editorState.validationErrors = action.payload]
      [] action.type = "SET_LOADING" ->
           [state EXCEPT !.isLoading = action.payload]
      [] action.type = "SET_ERROR" ->
           [state EXCEPT !.error = action.payload]
      [] OTHER -> state

Dispatch(state, type, payload) == courseReducer(state, [type |-> type, payload |-> payload])

\* the three lists the forEach of validateCourse fills, entry by entry
RECURSIVE Buckets(_)
Buckets(merged) ==
    IF merged = <<>>
    THEN [structural |-> <<>>, business |-> <<>>, other |-> <<>>]
    ELSE LET before == Buckets(SubSeq(merged, 1, Len(merged) - 1))
             err == merged[Len(merged)]
             t == Get(err, "type")
         IN  IF t = Str(ContextText.valueError) \/ t = Str(ContextText.typeError)
             THEN [before EXCEPT !.structural = Append(@, err)]
             ELSE IF t = Str(ContextText.businessRuleError)
             THEN [before EXCEPT !.business = Append(@, err)]
             ELSE [before EXCEPT !.other = Append(@, err)]

\* a variant that puts the business bucket first
Ordered_businessFirst(merged) ==
    Buckets(merged).business \o Buckets(merged).structural \o Buckets(merged).other

\* ordered = [...structural, ...business, ...other]
Ordered(merged) ==
    Buckets(merged).structural \o Buckets(merged).business \o Buckets(merged).other

\* no call in progress
ContextIdle(course) ==
    [state |-> initialState(course),
     pc |-> "idle",
     caller |-> "none",
     client |-> <<>>,
     response |-> HttpNoResponse,
     promise |-> Unsettled,
     ret |-> Undef,
     saved |-> "none",
     returned |-> FALSE,
     before |-> initialState(course),
     validations |-> 0,
     saveCalls |-> 0]

\* validateCourse up to its await: SET_LOADING, the client-side validation
\* and the request; when the client-side validation throws, the catch and the
\* finally run and the call returns false
ValidateCourseBegins(c, state, caller, schemaErrors) ==
    LET loading == Dispatch(state, "SET_LOADING", TRUE)
    IN  IF validateCourseFullThrows(loading.course)
        THEN [c EXCEPT
                !.state = Dispatch(Dispatch(loading, "SET_ERROR", Str(ContextText.failed)),
                                   "SET_LOADING", FALSE),
                !.pc = IF caller = "save" THEN "validated" ELSE "idle",
                !.caller = caller,
                !.client = <<>>,
                !.response = HttpNoResponse,
                !.promise = Unsettled,
                !.ret = Bool(FALSE),
                !.saved = "none",
                !.returned = TRUE,
                !.before = c.state,
                !.validations = @ + 1]
        ELSE [c EXCEPT
                !.state = loading,
                !.pc = "validating",
                !.caller = caller,
                !.client = validateCourseFull(loading.course, schemaErrors),
                !.response = HttpNoResponse,
                !.promise = Unsettled,
                !.ret = Undef,
                !.saved = "none",
                !.returned = FALSE,
                !.before = c.state,
                !.validations = @ + 1]

\* validateCourse after its await, given the promise of apiService.validateCourse
ValidateCourseEnds(state, client, promise) ==
    IF promise.settled = "resolved"
    THEN LET merged == client \o Get(promise.value, "errors").v
             ordered == Ordered(merged)
         IN  [state |-> Dispatch(Dispatch(state, "SET_VALIDATION_ERRORS", ordered),
                                 "SET_LOADING", FALSE),
              ret |-> Bool(Len(ordered) = 0)]
    ELSE [state |-> Dispatch(Dispatch(state, "SET_ERROR", Str(ContextText.failed)),
                             "SET_LOADING", FALSE),
          ret |-> Bool(FALSE)]

\* what apiService.saveCourse resolves with
SaveSucceeded(course) == Obj([success |-> Bool(TRUE), course |-> course])
SaveFailed(message) == Obj([success |-> Bool(FALSE), error |-> message])

---------------------------------------------------------------------------
(* Inputs of the provider                                                    *)

MaxValidations == 2

ContextTemplate(id, type, order, data) ==
    Obj([id |-> Str(id), type |-> Str(type), title |-> Str(<<"t">>),
         order |-> Num(order), data |-> data])

ContextCourse(templates) ==
    Obj([courseId |-> Str(<<"c1">>), title |-> Str(<<"Course">>),
         templates |-> templates])

McqDataNoQuestion ==
    Obj([options |-> Arr(<<Obj([id |-> Str(<<"a">>), text |-> Str(<<"A">>),
                                isCorrect |-> Bool(TRUE)]),
                           Obj([id |-> Str(<<"b">>), text |-> Str(<<"B">>),
                                isCorrect |-> Bool(FALSE)])>>)])

\* no client-side finding
PlainCourse ==
    ContextCourse(Arr(<<ContextTemplate(<<"t0">>, <<"content">>, 0, Obj(EmptyRecord))>>))

\* orders 0 and 2
GapCourse ==
    ContextCourse(Arr(<<ContextTemplate(<<"t0">>, <<"content">>, 0, Obj(EmptyRecord)),
                        ContextTemplate(<<"t1">>, <<"content">>, 2, Obj(EmptyRecord))>>))

\* two questions without a question text
TwoMcqCourse ==
    ContextCourse(Arr(<<ContextTemplate(<<"t0">>, TransformText.mcq, 0, McqDataNoQuestion),
                        ContextTemplate(<<"t1">>, TransformText.mcq, 1, McqDataNoQuestion)>>))

\* a question without data
McqNoDataCourse ==
    ContextCourse(Arr(<<ContextTemplate(<<"t0">>, TransformText.mcq, 0, Undef)>>))

ContextCourses == {PlainCourse, GapCourse, TwoMcqCourse, McqNoDataCourse}

SchemaErrorLists ==
    {<<>>,
     <<ClientError(<<"/navigation">>, <<"/navigation must NOT have additional properties">>)>>}

DetailAlpha ==
    Obj([loc |-> Arr(<<Str(<<"body">>), Str(<<"title">>)>>),
         msg |-> Str(<<"Alpha">>), type |-> Str(ContextText.businessRuleError)])
DetailBeta ==
    Obj([loc |-> Arr(<<Str(<<"body">>), Str(<<"templates">>), Num(0)>>),
         msg |-> Str(<<"Beta">>), type |-> Str(ContextText.valueError)])
DetailGamma ==
    Obj([loc |-> Arr(<<>>), msg |-> Str(<<"Gamma">>), type |-> Str(ContextText.typeError)])
DetailZeta == Obj([msg |-> Str(<<"Zeta">>)])

Details == {DetailAlpha, DetailBeta, DetailGamma, DetailZeta}

DetailLists == SeqsUpTo(Details, 2) \cup {<<DetailAlpha, DetailBeta, DetailZeta>>}

ValidationResponses ==
    {HttpOk(Obj([validation |-> Obj([valid |-> Bool(TRUE), errors |-> Arr(<<>>)])])),
     HttpOk(Obj([success |-> Bool(TRUE)])),
     HttpOk(Obj([validation |-> Obj([valid |-> Bool(FALSE), errors |-> Arr(<<
         Obj([field |-> Str(<<"mcq.question">>),
              message |-> Str(<<"MCQ question is required and must be a string">>)])>>)])])),
     HttpOk(Obj([validation |-> Obj([valid |-> Bool(FALSE), errors |-> Arr(<<
         Obj([field |-> Str(<<"title">>), message |-> Str(<<"Alpha">>),
              type |-> Str(<<"business_rule_error">>)]),
         Obj([field |-> Str(<<"templates">>), message |-> Str(<<"Beta">>),
              type |-> Str(<<"value_error">>)])>>)])])),
     HttpOk(Null),
     HttpError(422, Obj([detail |-> Str(<<"Invalid course">>)])),
     HttpError(422, Obj([detail |-> Str(<<>>)])),
     HttpError(422, Obj(EmptyRecord)),
     HttpError(422, Obj([detail |-> Arr(<<Null>>)])),
     HttpError(500, Obj([detail |-> Str(<<"Internal Server Error">>)])),
     HttpNoResponse}
    \cup {HttpError(422, Obj([detail |-> Arr(d)])) : d \in DetailLists}

SavedCourse == Obj([id |-> Num(7), courseId |-> Str(<<"c1">>), title |-> Str(<<"Course">>)])

SaveResults ==
    {SaveSucceeded(SavedCourse), SaveSucceeded(Undef),
     SaveFailed(Str(ContextText.saveFailed)), SaveFailed(Undef)}

---------------------------------------------------------------------------
(* The provider as a state machine                                           *)

ContextFrame == UNCHANGED <<validators, mockErrors, now, calls, fieldCall, tIn, tOut, tPc>>

\* validateCourse() is called
ValidateCourseCalled ==
    /\ ctx.pc = "idle"
    /\ ctx.validations < MaxValidations
    /\ \E schemaErrors \in SchemaErrorLists :
          ctx' = ValidateCourseBegins(ctx, ctx.state, "validate", schemaErrors)
    /\ ContextFrame

\* saveCourse() is called: it runs up to the await inside validateCourse
SaveCourseCalled ==
    /\ ctx.pc = "idle"
    /\ ctx.validations < MaxValidations
    /\ \E schemaErrors \in SchemaErrorLists :
          ctx' = ValidateCourseBegins(
                     ctx,
                     Dispatch(Dispatch(ctx.state, "SET_LOADING", TRUE), "SET_ERROR", Null),
                     "save", schemaErrors)
    /\ ContextFrame

\* the HTTP client hands back the outcome of POST /courses/validate:
\* apiService.validateCourse settles and validateCourse runs to its end
ValidationResponds ==
    /\ ctx.pc = "validating"
    /\ \E response \in ValidationResponses :
          LET promise == apiValidateCourse(response)
              end == ValidateCourseEnds(ctx.state, ctx.client, promise)
          IN  ctx' = [ctx EXCEPT
                        !.state = end.state,
                        !.pc = IF ctx.caller = "save" THEN "validated" ELSE "idle",
                        !.response = response,
                        !.promise = promise,
                        !.ret = end.ret,
                        !.returned = TRUE]
    /\ ContextFrame

\* saveCourse after validateCourse returned: it refuses, or calls
\* apiService.saveCourse
SaveCourseResumes ==
    /\ ctx.pc = "validated"
    /\ IF ctx.ret = Bool(FALSE)
       THEN ctx' = [ctx EXCEPT
                      !.state = Dispatch(Dispatch(ctx.state, "SET_ERROR",
                                                  Str(ContextText.refused)),
                                         "SET_LOADING", FALSE),
                      !.pc = "idle",
                      !.saved = "rejected",
                      !.returned = FALSE]
       ELSE ctx' = [ctx EXCEPT
                      !.pc = "saving",
                      !.saveCalls = @ + 1,
                      !.returned = FALSE]
    /\ ContextFrame

\* apiService.saveCourse resolves and saveCourse runs to its end
SaveResponds ==
    /\ ctx.pc = "saving"
    /\ \E result \in SaveResults :
          IF Truthy(Get(result, "success"))
          THEN LET set == IF Truthy(Get(result, "course"))
                          THEN Dispatch(ctx.state, "SET_COURSE", Get(result, "course"))
                          ELSE ctx.state
               IN  ctx' = [ctx EXCEPT
                             !.state = Dispatch(Dispatch(set, "SET_DIRTY", FALSE),
                                                "SET_LOADING", FALSE),
                             !.pc = "idle",
                             !.saved = "fulfilled"]
          ELSE ctx' = [ctx EXCEPT
                         !.state = Dispatch(Dispatch(ctx.state, "SET_ERROR",
                                                     Or(Get(result, "error"),
                                                        Str(ContextText.saveFailed))),
                                            "SET_LOADING", FALSE),
                         !.pc = "idle",
                         !.saved = "rejected"]
    /\ ContextFrame

InitContext ==
    /\ validators = DefaultValidators
    /\ mockErrors = <<>>
    /\ calls = [inv \in 1..1 |-> IdleCall]
    /\ now = 0
    /\ fieldCall = NoFieldCall
    /\ tIn = Undef
    /\ tOut = Undef
    /\ tPc = "idle"
    /\ ctx \in {ContextIdle(course) : course \in ContextCourses}

NextContext ==
    \/ ValidateCourseCalled
    \/ SaveCourseCalled
    \/ ValidationResponds
    \/ SaveCourseResumes
    \/ SaveResponds

SpecContext == InitContext /\ [][NextContext]_vars

---------------------------------------------------------------------------
(* Claims about the provider                                                 *)

\* validateCourse has just returned after apiService.validateCourse resolved
ValidationCompleted == ctx.returned /\ ctx.promise.settled = "resolved"

\* client errors followed by server errors
Merged == ctx.client \o Get(ctx.promise.value, "errors").v

Dispatched == ctx.state.editorState.validationErrors

\* 0 for value_error and type_error, 1 for business_rule_error, 2 otherwise
Rank(err) ==
    IF Get(err, "type") \in {Str(<<"value_error">>), Str(<<"type_error">>)} THEN 0
    ELSE IF Get(err, "type") = Str(<<"business_rule_error">>) THEN 1
    ELSE 2

OfRank(list, r) == SelectSeq(list, LAMBDA err : Rank(err) = r)

\* C12: the list validateCourse dispatches holds the errors of the
\* concatenation (client errors, then server errors), each as often as there:
\* the ranks never decrease along it (structural, then business, then the
\* others, untagged client errors among them), and the errors of one rank are
\* in the order they have in the concatenation; validateCourse returns true
\* exactly when the list is empty
C12_BucketedStableOrder ==
    ValidationCompleted =>
        /\ Len(Dispatched) = Len(Merged)
        /\ \A i, j \in 1..Len(Dispatched) :
              i < j => Rank(Dispatched[i]) <= Rank(Dispatched[j])
        /\ \A r \in 0..2 : OfRank(Dispatched, r) = OfRank(Merged, r)
        /\ ctx.ret = Bool(Dispatched = <<>>)

\* a validation that moved errors: client errors and server errors of all
\* three ranks, two of them of the same rank
C12_Witness ==
    /\ ValidationCompleted
    /\ ctx.client # <<>>
    /\ Dispatched # Merged
    /\ \A r \in 0..2 : OfRank(Dispatched, r) # <<>>
    /\ Len(OfRank(Dispatched, 2)) >= 2
    /\ ctx.ret = Bool(FALSE)

\* a finding that blocks: category schema, or category business with
\* "required" in its field path, or one the Header counts as blocking by its
\* type
Blocking(err) ==
    \/ Get(err, "category") = Str(<<"schema">>)
    \/ /\ Get(err, "category") = Str(<<"business">>)
       /\ IsString(Get(err, "field"))
       /\ Includes(Get(err, "field").v, ServiceText.required)
    \/ Rank(err) < 2

\* saveCourse refused after a validation that completed
SaveRefused ==
    /\ ctx.caller = "save"
    /\ ctx.pc = "idle"
    /\ ctx.saved = "rejected"
    /\ ctx.state.error = Str(<<"Course validation failed. Please fix errors before saving.">>)
    /\ ctx.promise.settled = "resolved"

\* C16: saveCourse goes on to the backend call exactly when the findings of
\* its validation hold no blocking error: it never reaches the call with one,
\* and it is not refused without one
C16_RefusedExactlyOnBlocking ==
    /\ ctx.pc = "saving" => \A i \in 1..Len(Dispatched) : ~Blocking(Dispatched[i])
    /\ SaveRefused => \E i \in 1..Len(Dispatched) : Blocking(Dispatched[i])

\* C17: the list validateCourse dispatches holds no two errors with the same
\* field and the same message
C17_NoDuplicateFieldMessage ==
    ValidationCompleted =>
        \A i, j \in 1..Len(Dispatched) :
            i < j => ~(/\ Get(Dispatched[i], "field") = Get(Dispatched[j], "field")
                       /\ Get(Dispatched[i], "message") = Get(Dispatched[j], "message"))

\* the remote call failed, and not with an HTTP 422: no response at all
\* (timeout, network failure) or another status
TransportFailure ==
    /\ ctx.returned
    /\ ctx.promise.settled # "pending"
    /\ \/ ctx.response.kind = "none"
       \/ ctx.response.kind = "error" /\ ctx.response.status # 422

\* C19: when the remote call fails otherwise than with a 422,
\* apiService.validateCourse rejects and validateCourse returns false, sets
\* error to 'Failed to validate course', leaves the validation errors as they
\* were before the call and ends with isLoading false
C19_TransportFailureCaught ==
    TransportFailure =>
        /\ ctx.promise.settled = "rejected"
        /\ ctx.ret = Bool(FALSE)
        /\ ctx.state.error = Str(<<"Failed to validate course">>)
        /\ ctx.state.editorState.validationErrors = ctx.before.editorState.validationErrors
        /\ ctx.state.validationErrors = ctx.before.validationErrors
        /\ ctx.state.isLoading = FALSE

\* a status 500 after an earlier validation had left errors behind
C19_Witness ==
    /\ TransportFailure
    /\ ctx.response.status = 500
    /\ ctx.before.editorState.validationErrors # <<>>
    /\ ctx.state.editorState.validationErrors # <<>>
    /\ ctx.client # ctx.state.editorState.validationErrors
    /\ ctx.state.error = Str(<<"Failed to validate course">>)

\* apiService.validateCourse has settled on an HTTP 422
Settled422 ==
    /\ ctx.promise.settled # "pending"
    /\ ctx.response.kind = "error"
    /\ ctx.response.status = 422

\* the last segment of loc when loc is present and not empty, 'course' otherwise
LastSegment(d) ==
    IF IsArray(Get(d, "loc")) /\ Len(Get(d, "loc").v) > 0
    THEN Get(d, "loc").v[Len(Get(d, "loc").v)]
    ELSE Str(<<"course">>)

\* C20: on an HTTP 422 apiService.validateCourse resolves with valid false;
\* an array detail gives one error per entry, in order, with the last segment
\* of loc as field (a numeric one too; 'course' when loc is missing or
\* empty), msg as message and type as type; a string detail gives one error
\* with field 'course' and the string as message
C20_Detail422Mapped ==
    Settled422 =>
        /\ ctx.promise.settled = "resolved"
        /\ Get(ctx.promise.value, "valid") = Bool(FALSE)
        /\ LET detail == Get(ctx.response.data, "detail")
               errors == Get(ctx.promise.value, "errors").v
           IN  /\ IsArray(detail) =>
                     /\ Len(errors) = Len(detail.v)
                     /\ \A i \in 1..Len(detail.v) :
                           /\ Get(errors[i], "field") = LastSegment(detail.v[i])
                           /\ Get(detail.v[i], "msg") # Undef =>
                                 Get(errors[i], "message") = Get(detail.v[i], "msg")
                           /\ Get(detail.v[i], "type") # Undef =>
                                 Get(errors[i], "type") = Get(detail.v[i], "type")
               /\ IsString(detail) =>
                     /\ Len(errors) = 1
                     /\ Get(errors[1], "field") = Str(<<"course">>)
                     /\ Get(errors[1], "message") = detail

---------------------------------------------------------------------------
(* ValidationErrorModal: components/ValidationErrorModal (part_006)         *)

ModalText ==
    [error |-> <<"error">>, warning |-> <<"warning">>, info |-> <<"info">>,
     all |-> <<"all">>, errors |-> <<"errors">>, warnings |-> <<"warnings">>,
     general |-> <<"General">>, initial |-> <<"Errors">>]

\* the letters of the messages, in collation order; a letter and its capital
\* have the same primary weight
Collation == <<"a", "A", "b", "B">>
Primary(c) == ((CHOOSE i \in 1..Len(Collation) : Collation[i] = c) + 1) \div 2
Tertiary(c) == CHOOSE i \in 1..Len(Collation) : Collation[i] = c

\* the first position where the weights of two strings differ, 0 if none
Weight(level, c) == IF level = "primary" THEN Primary(c) ELSE Tertiary(c)

FirstDifference(a, b, level) ==
    LET n == IF Len(a) < Len(b) THEN Len(a) ELSE Len(b)
        differing == {i \in 1..n : Weight(level, a[i]) # Weight(level, b[i])}
    IN  IF differing = {} THEN 0 ELSE CHOOSE i \in differing : \A j \in differing : i <= j

CompareWeights(a, b, level) ==
    LET d == FirstDifference(a, b, level)
    IN  IF d # 0 THEN (IF Weight(level, a[d]) < Weight(level, b[d]) THEN -1 ELSE 1)
        ELSE IF Len(a) < Len(b) THEN -1
        ELSE IF Len(a) > Len(b) THEN 1
        ELSE 0

\* a.localeCompare(b): the letters first, their case only to break a tie
localeCompare(a, b) ==
    IF CompareWeights(a, b, "primary") # 0 THEN CompareWeights(a, b, "primary")
    ELSE CompareWeights(a, b, "tertiary")

severityWeight(level) ==
    CASE level = Str(ModalText.error) -> 0
      [] level = Str(ModalText.warning) -> 1
      [] level = Str(ModalText.info) -> 2

CompareMessages(a, b) == localeCompare(Get(a, "message").v, Get(b, "message").v)

CompareSeverityThenMessage(a, b) ==
    IF severityWeight(Get(a, "level")) # severityWeight(Get(b, "level"))
    THEN severityWeight(Get(a, "level")) - severityWeight(Get(b, "level"))
    ELSE CompareMessages(a, b)

\* levelPriority[name.split(" - ")[0]]
levelPriority(name) ==
    CASE name[1] = "Error" -> 0
      [] name[1] = "Warning" -> 1
      [] name[1] = "Info" -> 2

\* by level priority, then by count, the larger first
CompareCategories(a, b) ==
    IF levelPriority(a.name) # levelPriority(b.name)
    THEN levelPriority(a.name) - levelPriority(b.name)
    ELSE b.count - a.count

\* the comparators handed to sort
Compare(by, a, b) ==
    CASE by = "severityThenMessage" -> CompareSeverityThenMessage(a, b)
      [] by = "message" -> CompareMessages(a, b)
      [] by = "category" -> CompareCategories(a, b)

\* Array.prototype.sort with a consistent comparator: stable
StableSort(list, by) ==
    LET sorted[n \in 0..Len(list)] ==
            IF n = 0 THEN <<>>
            ELSE LET s == sorted[n - 1]
                     k == Cardinality({i \in 1..Len(s) : Compare(by, s[i], list[n]) <= 0})
                 IN  SubSeq(s, 1, k) \o <<list[n]>> \o SubSeq(s, k + 1, Len(s))
    IN  sorted[Len(list)]

sortedErrors(errors) == StableSort(errors, "severityThenMessage")

\* filtered: the sorted list, or its entries whose level is the active tab
filteredErrors(errors, activeTab) ==
    IF activeTab = ModalText.all THEN sortedErrors(errors)
    ELSE SelectSeq(sortedErrors(errors), LAMBDA e : Get(e, "level") = Str(activeTab))

\* the key of the Map: level and element type ("General" when there is none)
GroupKey(error) ==
    [level |-> Get(error, "level"),
     elementType |-> Or(Get(error, "elementType"), Str(ModalText.general))]

\* the keys of the Map, in insertion order
GroupKeys(filtered) ==
    LET keys[n \in 0..Len(filtered)] ==
            IF n = 0 THEN <<>>
            ELSE IF \E i \in 1..Len(keys[n - 1]) : keys[n - 1][i] = GroupKey(filtered[n])
                 THEN keys[n - 1]
                 ELSE Append(keys[n - 1], GroupKey(filtered[n]))
    IN  keys[Len(filtered)]

\* level.charAt(0).toUpperCase() + level.slice(1)
Capitalized(level) ==
    CASE level = Str(ModalText.error) -> <<"Error">>
      [] level = Str(ModalText.warning) -> <<"Warning">>
      [] level = Str(ModalText.info) -> <<"Info">>

\* one category, named "Level - elementType" (the element types of the
\* inputs hold no "-", at which the code would cut them)
Category(filtered, key) ==
    LET errorList == SelectSeq(filtered, LAMBDA e : GroupKey(e) = key)
    IN  [name |-> Capitalized(key.level) \o <<" - ">> \o key.elementType.v,
         count |-> Len(errorList),
         errors |-> StableSort(errorList, "message")]

categorizedErrors(errors, activeTab) ==
    LET filtered == filteredErrors(errors, activeTab)
        keys == GroupKeys(filtered)
    IN  StableSort([i \in 1..Len(keys) |-> Category(filtered, keys[i])],
                   "category")

\* the error blocks on the screen, top to bottom: the errors of the expanded
\* categories
DisplayedErrors(categories, expandedCategories) ==
    LET blocks[n \in 0..Len(categories)] ==
            IF n = 0 THEN <<>>
            ELSE blocks[n - 1]
                   \o (IF categories[n].name \in expandedCategories
                       THEN categories[n].errors ELSE <<>>)
    IN  blocks[Len(categories)]

CategoryNames(categories) == {categories[i].name : i \in 1..Len(categories)}

\* what the useMemo keeps for the errors and the active tab
Memo(errors, activeTab) ==
    [categorizedErrors |-> categorizedErrors(errors, activeTab),
     filteredErrors |-> filteredErrors(errors, activeTab)]

---------------------------------------------------------------------------
(* The modal as a state machine                                              *)

MaxErrors == 3

ModalMessages == {Str(<<"a">>), Str(<<"B">>)}
ElementTypes == {Str(<<"Field">>), Str(<<"Meta">>)}

ModalError(level, message, elementType) ==
    Obj([level |-> Str(level), message |-> message, elementType |-> elementType])

\* errors of every message and element type, one warning and one info
ModalErrors ==
    {ModalError(ModalText.error, message, elementType) :
        message \in ModalMessages, elementType \in ElementTypes}
    \cup {ModalError(ModalText.warning, Str(<<"a">>), Str(<<"Field">>)),
          ModalError(ModalText.info, Str(<<"B">>), Undef)}

ModalErrorLists == SeqsUpTo(ModalErrors, MaxErrors)

Tabs == {ModalText.all, ModalText.errors, ModalText.warnings, ModalText.info}

ModalFrame == UNCHANGED <<validators, mockErrors, now, calls, fieldCall, tIn, tOut, tPc>>

\* a tab is chosen
SetActiveTab ==
    /\ \E tab \in Tabs \ {ctx.activeTab} :
          ctx' = [ctx EXCEPT !.activeTab = tab, !.memo = Memo(ctx.errors, tab)]
    /\ ModalFrame

\* the header of a category is clicked
toggleCategory ==
    /\ \E name \in CategoryNames(ctx.memo.categorizedErrors) :
          ctx' = [ctx EXCEPT !.expandedCategories =
                     IF name \in @ THEN @ \ {name} ELSE @ \cup {name}]
    /\ ModalFrame

\* the Expand All / Collapse All button, shown when the list is not empty
ExpandAllClicked ==
    /\ ctx.memo.filteredErrors # <<>>
    /\ ctx' = [ctx EXCEPT !.expandedCategories =
                  IF Cardinality(@) = Len(ctx.memo.categorizedErrors)
                  THEN {}
                  ELSE CategoryNames(ctx.memo.categorizedErrors)]
    /\ ModalFrame

InitModal ==
    /\ validators = DefaultValidators
    /\ mockErrors = <<>>
    /\ calls = [inv \in 1..1 |-> IdleCall]
    /\ now = 0
    /\ fieldCall = NoFieldCall
    /\ tIn = Undef
    /\ tOut = Undef
    /\ tPc = "idle"
    /\ ctx \in {[errors |-> errors, activeTab |-> ModalText.all,
                 expandedCategories |-> {ModalText.initial},
                 memo |-> Memo(errors, ModalText.all)] :
                    errors \in ModalErrorLists}

NextModal ==
    \/ SetActiveTab
    \/ toggleCategory
    \/ ExpandAllClicked

SpecModal == InitModal /\ [][NextModal]_vars

---------------------------------------------------------------------------
(* Claims about the modal                                                    *)

Displayed == DisplayedErrors(ctx.memo.categorizedErrors, ctx.expandedCategories)

AllExpanded == CategoryNames(ctx.memo.categorizedErrors) \subseteq ctx.expandedCategories

\* C13: with every category expanded, the error blocks are in order of
\* severity (error, warning, info) and, within one severity, in the order of
\* their messages, whatever the element types of the errors
C13_SeverityThenMessage ==
    AllExpanded =>
        \A i, j \in 1..Len(Displayed) :
            i < j => CompareSeverityThenMessage(Displayed[i], Displayed[j]) <= 0

---------------------------------------------------------------------------
(* One entity validator, called on its own                                   *)

IdPage(id) == Obj([id |-> id, title |-> Str(<<"Page">>)])

PageIdValues == {Str(<<>>), Str(InputText.p1), Str(InputText.p2)}

\* courses whose pages carry every list of these ids, up to MaxPages
IdCourses ==
    {EditorCourse(Str(<<"T">>), Str(<<"A">>), Arr([i \in 1..Len(ids) |-> IdPage(ids[i])])) :
        ids \in SeqsUpTo(PageIdValues, MaxPages)}

\* malformed courses
NullContentCourse ==
    EditorCourse(Str(<<"T">>), Str(<<"A">>),
                 Arr(<<EditorPage(InputText.p1, Str(TemplateText.contentText), 0, Null)>>))
MissingPagesCourse == Obj([courseId |-> Str(<<"c", "1">>), title |-> Str(<<"T">>), author |-> Str(<<"A">>)])
NumericBodyCourse ==
    EditorCourse(Str(<<"T">>), Str(<<"A">>),
                 Arr(<<EditorPage(InputText.p1, Str(TemplateText.contentText), 0,
                                  Obj([body |-> Num(5)]))>>))
NumericTitleCourse == EditorCourse(Num(5), Str(<<"A">>), Arr(<<TextPage(InputText.p1, 0)>>))
NullConditionCourse ==
    EditorCourse(Str(<<"T">>), Str(<<"A">>),
                 Arr(<<Put(TextPage(InputText.p1, 0), "conditions", Arr(<<Null>>))>>))

MalformedCourses ==
    {McqNoContentCourse, NullContentCourse, MissingPagesCourse, NumericBodyCourse,
     NumericTitleCourse, NullConditionCourse}

\* courses for the six checks of CourseValidator: each of title, author and
\* description missing, blank, within its limit and beyond it, with and
\* without pages
FieldTexts(limit) ==
    {Undef, Str(<<>>), Str(<<" ">>), Str(<<"T">>), Str(Repeat("x", limit + 1)),
     Str(Repeat(" ", limit + 1))}
CheckCourses ==
    {Put(EditorCourse(title, author, pages), "description", description) :
        title \in FieldTexts(MaxTitleLength),
        author \in {Undef, Str(<<"A">>), Str(Repeat("x", MaxAuthorLength + 1))},
        description \in {Undef, Str(<<"d">>), Str(Repeat("x", MaxDescriptionLength + 1))},
        pages \in {Undef, Arr(<<>>), Arr(<<TextPage(InputText.p1, 0)>>)}}

\* pages of every type of the enumeration, of a type outside it and of none,
\* each with a content that satisfies the rules of its type
PageTypes ==
    {Undef, Str(<<>>), Str(TemplateText.welcome), Str(TemplateText.contentText),
     Str(TypeText.contentVideo), Str(TemplateText.mcq), Str(TypeText.summary),
     Str(TypeText.contentImage), Str(TypeText.interactive), Str(<<"q", "u", "i", "z">>)}
TypedPage(id, templateType, type) ==
    Put(EditorPage(id, templateType, 0,
                   Obj([title |-> Str(<<"t">>), body |-> Str(<<"b">>),
                        question |-> Str(<<"Q">>),
                        options |-> Arr(<<Str(<<"A">>), Str(<<"B">>)>>),
                        correctAnswer |-> Num(0)])),
        "type", type)
TypeCourses ==
    {EditorCourse(Str(<<"T">>), Str(<<"A">>),
                  Arr(<<TypedPage(InputText.p1, first, Undef),
                        TypedPage(InputText.p2, Undef, second)>>)) :
        first \in PageTypes, second \in PageTypes}

EntityCourses ==
    IdCourses \cup MalformedCourses \cup {ValidCourse} \cup CheckCourses \cup TypeCourses

EntityFrame == UNCHANGED <<validators, mockErrors, now, calls, fieldCall, tIn, tOut, tPc>>

\* validator.validate(course) runs and its promise settles
EntityValidate ==
    /\ ctx.pc = "idle"
    /\ ctx' = [ctx EXCEPT !.pc = "settled",
                          !.promise = Validate(ctx.validator, ctx.course)]
    /\ EntityFrame

InitEntity ==
    /\ validators = DefaultValidators
    /\ mockErrors = <<>>
    /\ calls = [inv \in 1..1 |-> IdleCall]
    /\ now = 0
    /\ fieldCall = NoFieldCall
    /\ tIn = Undef
    /\ tOut = Undef
    /\ tPc = "idle"
    /\ ctx \in {[validator |-> v, course |-> course, pc |-> "idle", promise |-> Pending] :
                    v \in {"Course", "Template", "Navigation"}, course \in EntityCourses}

NextEntity == EntityValidate

SpecEntity == InitEntity /\ [][NextEntity]_vars

---------------------------------------------------------------------------
(* Claims about the entity validators                                        *)

NavigationSettled == ctx.pc = "settled" /\ ctx.validator = "Navigation"

EntityPages == IF IsArray(Get(ctx.course, "pages")) THEN Get(ctx.course, "pages").v ELSE <<>>

\* the errors that report a duplicate id
DuplicateIdErrors ==
    SelectSeq(ctx.promise.errors,
              LAMBDA e : Len(e.message) >= 1 /\ e.message[1] = "Duplicate page ID: ")

\* the positions whose non-empty id stands at an earlier position too
Recurrences ==
    {n \in 1..Len(EntityPages) :
        /\ Get(EntityPages[n], "id") # Str(<<>>)
        /\ \E m \in 1..(n - 1) : Get(EntityPages[m], "id") = Get(EntityPages[n], "id")}

\* C14: NavigationValidator reports a duplicate id once at each occurrence
\* of a non-empty id after its first, and nowhere else: k pages sharing an id
\* give k - 1 errors, each with field pages[i].id and a message naming the id;
\* pages with pairwise distinct ids give none
C14_OneErrorPerRecurrence ==
    (NavigationSettled /\ ctx.course \in IdCourses) =>
        /\ ~ctx.promise.threw
        /\ Len(DuplicateIdErrors) = Cardinality(Recurrences)
        /\ \A n \in Recurrences :
              Cardinality({i \in 1..Len(DuplicateIdErrors) :
                  /\ DuplicateIdErrors[i].field = PageField(n - 1, <<"]", ".", "i", "d">>)
                  /\ DuplicateIdErrors[i].message
                       = <<"Duplicate page ID: ">> \o Get(EntityPages[n], "id").v
                  /\ DuplicateIdErrors[i].category = "business"}) = 1

\* three pages sharing one id: two errors
C14_Witness ==
    /\ NavigationSettled
    /\ ctx.course \in IdCourses
    /\ Len(EntityPages) = 3
    /\ \A n \in 1..3 : Get(EntityPages[n], "id") = Str(InputText.p1)
    /\ Len(DuplicateIdErrors) = 2


\* C18: validate() of each entity validator resolves for any course, however
\* malformed: its promise is never rejected
C18_NeverRejects ==
    ctx.pc = "settled" => ~ctx.promise.threw

---------------------------------------------------------------------------
(* The page type where a page carries both templateType and type *)

\* the types getNormalizedTemplateType lets through
NormalizedTypes ==
    {Str(TemplateText.welcome), Str(TemplateText.contentText),
     Str(TypeText.contentVideo), Str(TemplateText.mcq), Str(TypeText.summary)}

\* getNormalizedTemplateType: templateType || type, a missing or unlisted type
\* becoming 'content-text'
getNormalizedTemplateType(template) ==
    LET rawType == Or(Get(template, "templateType"), Get(template, "type"))
    IN  IF ~Truthy(rawType) THEN Str(TemplateText.contentText)
        ELSE IF rawType \in NormalizedTypes THEN rawType
        ELSE Str(TemplateText.contentText)

\* the page carries a templateType and a type that differ
CarriesBothTypes(page) ==
    /\ Truthy(Get(page, "templateType"))
    /\ Truthy(Get(page, "type"))
    /\ Get(page, "templateType") # Get(page, "type")

\* the 'type' a transform wrote for the page of that id
WrittenType(page) ==
    LET out == CHOOSE t \in {OutTemplates[i] : i \in 1..Len(OutTemplates)} :
                   Get(t, "id") = Get(page, "id")
    IN  Get(out, "type")

\* C21: for a page carrying both templateType and type with different values,
\* normalizeTemplateType, getNormalizedTemplateType and the 'type' written by
\* transformCourseForBackend and by transformCourseForExport all resolve to
\* templateType
C21_TypeResolvesToTemplateType ==
    tPc \in {"backend", "export"} =>
        \A i \in 1..Len(SourcePages(tIn)) :
            LET page == SourcePages(tIn)[i]
            IN  CarriesBothTypes(page) =>
                    /\ TemplateValidator_normalizeTemplateType(page)
                           = Get(page, "templateType")
                    /\ getNormalizedTemplateType(page) = Get(page, "templateType")
                    /\ WrittenType(page) = Get(page, "templateType")


CourseSettled == ctx.pc = "settled" /\ ctx.validator = "Course" /\ ~ctx.promise.threw

\* the checks of CourseValidator that the course fails, by the field each is
\* about and the kind of check
FailingChecks ==
    LET course == ctx.course
        present(k) == ~BlankString(Get(course, k))
        within(k, n) == ~(Truthy(Get(course, k)) /\ LengthExceeds(Get(course, k), n))
    IN  {c \in {<<CourseText.courseTitle, "presence">>, <<CourseText.courseTitle, "length">>,
                <<CourseText.courseAuthor, "presence">>, <<CourseText.courseAuthor, "length">>,
                <<CourseText.courseDescription, "length">>,
                <<CourseText.coursePages, "presence">>} :
            CASE c = <<CourseText.courseTitle, "presence">> -> ~present("title")
              [] c = <<CourseText.courseTitle, "length">> -> ~within("title", MaxTitleLength)
              [] c = <<CourseText.courseAuthor, "presence">> -> ~present("author")
              [] c = <<CourseText.courseAuthor, "length">> -> ~within("author", MaxAuthorLength)
              [] c = <<CourseText.courseDescription, "length">> ->
                     ~within("description", MaxDescriptionLength)
              [] OTHER -> \/ ~Truthy(Get(course, "pages"))
                          \/ Len(Get(course, "pages").v) = 0}

\* the category the claim gives a failing check
ClaimedCategory(check) == IF check[2] = "presence" THEN "schema" ELSE "business"

\* C22: CourseValidator.validate evaluates its six checks independently: it
\* returns as many errors as checks fail, and each failing presence check
\* (title, author, pages) has one error of category schema, each failing
\* length check one error of category business
C22_OneErrorPerFailingCheck ==
    CourseSettled =>
        /\ Len(ctx.promise.errors) = Cardinality(FailingChecks)
        /\ \A check \in FailingChecks :
              Cardinality({i \in 1..Len(ctx.promise.errors) :
                  /\ ctx.promise.errors[i].field = check[1]
                  /\ ctx.promise.errors[i].category = ClaimedCategory(check)}) = 1


TemplateSettled == ctx.pc = "settled" /\ ctx.validator = "Template" /\ ~ctx.promise.threw

\* the fixed enumeration of page types
TypeEnumeration ==
    {Str(TemplateText.welcome), Str(TemplateText.contentText), Str(TypeText.contentVideo),
     Str(TemplateText.mcq), Str(TypeText.summary), Str(TypeText.contentImage),
     Str(TypeText.interactive)}

\* the errors TemplateValidator returned about the page at array position index
ErrorsOfPage(index) ==
    SelectSeq(ctx.promise.errors,
              LAMBDA e : StartsWith(e.field, PageField(index, <<"]">>)))

IsUnknownTypeWarning(e) ==
    /\ StartsWith(e.message, <<"Unknown template type: ">>)
    /\ e.category = "business"
    /\ e.level = "warning"

\* C23: for each page TemplateValidator emits exactly one schema error and
\* nothing else when the page has neither templateType nor type, and the
\* 'Unknown template type' business warning exactly when the resolved type
\* lies outside {welcome, content-text, content-video, mcq, summary,
\* content-image, interactive}
C23_UnknownTypeWarningOutsideEnumeration ==
    (TemplateSettled /\ ctx.course \in TypeCourses) =>
        \A n \in 1..Len(EntityPages) :
            LET page == EntityPages[n]
                resolved == TemplateValidator_normalizeTemplateType(page)
                errors == ErrorsOfPage(n - 1)
            IN  /\ ~Truthy(resolved) =>
                      /\ Len(errors) = 1
                      /\ errors[1].category = "schema"
                /\ (\E i \in 1..Len(errors) : IsUnknownTypeWarning(errors[i]))
                      <=> (Truthy(resolved) /\ resolved \notin TypeEnumeration)


\* the errors a successful response carries in its validation block
SentErrors ==
    LET errors == Get(Get(ctx.response.data, "validation"), "errors")
    IN  IF IsArray(errors) THEN errors.v ELSE <<>>

BucketTypes == {Str(<<"value_error">>), Str(<<"type_error">>), Str(<<"business_rule_error">>)}

\* C24: an error of type value_error, type_error or business_rule_error in a
\* successful (2xx) response keeps its type through apiService.validateCourse
\* and is dispatched in the bucket of that type, as the same error from a 422
\* response is
C24_TypeKeptOnSuccess ==
    (ValidationCompleted /\ ctx.response.kind = "ok") =>
        \A i \in 1..Len(SentErrors) :
            Get(SentErrors[i], "type") \in BucketTypes =>
                /\ Get(Get(ctx.promise.value, "errors").v[i], "type")
                       = Get(SentErrors[i], "type")
                /\ \E j \in 1..Len(Dispatched) :
                      /\ Get(Dispatched[j], "field") = Get(SentErrors[i], "field")
                      /\ Get(Dispatched[j], "message") = Get(SentErrors[i], "message")
                      /\ Rank(Dispatched[j]) = Rank(SentErrors[i])

---------------------------------------------------------------------------
(* The page lists of the two stores: courseSlice (removePage, reorderPages,  *)
(* driven by PageManager) and CourseProvider (the template cases of          *)
(* courseReducer, driven by the provider's callbacks)                        *)

\* a variant that filters and leaves the order fields as they were
removePage_unsequenced(currentCourse, id) ==
    IF ~Truthy(currentCourse) THEN currentCourse
    ELSE Put(currentCourse, "pages",
             Arr(SelectSeq(Get(currentCourse, "pages").v, LAMBDA p : Get(p, "id") # id)))

\* courseSlice.removePage
removePage(currentCourse, id) ==
    IF ~Truthy(currentCourse) THEN currentCourse
    ELSE Put(currentCourse, "pages",
             Arr(Resequenced(SelectSeq(Get(currentCourse, "pages").v,
                                       LAMBDA p : Get(p, "id") # id))))

\* pageMap.get(id): the last page carrying the id, undefined when none does
PageOfId(pages, id) ==
    IF \E i \in 1..Len(pages) : Get(pages[i], "id") = id
    THEN pages[CHOOSE i \in 1..Len(pages) :
                   /\ Get(pages[i], "id") = id
                   /\ \A j \in (i + 1)..Len(pages) : Get(pages[j], "id") # id]
    ELSE Undef

\* courseSlice.reorderPages: an id named twice puts one page object at two
\* positions, and the forEach leaves it the order of the last of them
reorderPages(currentCourse, ids) ==
    IF ~Truthy(currentCourse) THEN currentCourse
    ELSE LET pages == Get(currentCourse, "pages").v
             kept == SelectSeq(ids, LAMBDA id : Truthy(PageOfId(pages, id)))
             lastAt(i) == CHOOSE j \in i..Len(kept) :
                              /\ kept[j] = kept[i]
                              /\ \A k \in (j + 1)..Len(kept) : kept[k] # kept[i]
         IN  Put(currentCourse, "pages",
                 Arr([i \in 1..Len(kept) |->
                         Put(PageOfId(pages, kept[i]), "order", Num(lastAt(i) - 1))]))

\* PageManager's pages: the first page of each id, sorted by order
RECURSIVE FirstOfEachId(_)
FirstOfEachId(rawPages) ==
    IF rawPages = <<>> THEN <<>>
    ELSE LET before == FirstOfEachId(SubSeq(rawPages, 1, Len(rawPages) - 1))
             page == rawPages[Len(rawPages)]
         IN  IF \E i \in 1..Len(before) : Get(before[i], "id") = Get(page, "id")
             THEN before
             ELSE Append(before, page)

ManagerPages(currentCourse) ==
    IF ~Truthy(currentCourse) \/ ~Truthy(Get(currentCourse, "pages")) THEN <<>>
    ELSE sortedTemplates(FirstOfEachId(Get(currentCourse, "pages").v))

\* pages.findIndex((p) => p.id === id), 0-based
IndexOfId(pages, id) ==
    CHOOSE i \in 0..(Len(pages) - 1) :
        /\ Get(pages[i + 1], "id") = id
        /\ \A j \in 1..i : Get(pages[j], "id") # id

\* handleDrop: the ids of the manager's pages, the dragged one moved to the
\* place of the target
DroppedIds(pages, draggedPageId, targetPageId) ==
    LET reorderedPages == Moved(pages, IndexOfId(pages, draggedPageId),
                                IndexOfId(pages, targetPageId))
    IN  [i \in 1..Len(reorderedPages) |-> Get(reorderedPages[i], "id")]

---------------------------------------------------------------------------
(* Inputs of the two stores                                                  *)

SlicePage(id, order) == Obj([id |-> Str(id), title |-> Str(<<"Page">>), order |-> Num(order)])

\* courses given to setCurrentCourse: ids distinct and repeated, orders
\* sequential and stale
SliceCourses ==
    {Obj([courseId |-> Str(<<"c1">>), title |-> Str(<<"Course">>), pages |-> Arr(pages)]) :
        pages \in {<<>>,
                   <<SlicePage(<<"p1">>, 0)>>,
                   <<SlicePage(<<"p1">>, 0), SlicePage(<<"p2">>, 1), SlicePage(<<"p3">>, 2)>>,
                   <<SlicePage(<<"p1">>, 4), SlicePage(<<"p2">>, 2), SlicePage(<<"p3">>, 7)>>,
                   <<SlicePage(<<"p1">>, 0), SlicePage(<<"p1">>, 1), SlicePage(<<"p2">>, 2)>>}}

EmptyCourse == ContextCourse(Arr(<<>>))
UntitledCourse == Obj([courseId |-> Str(<<"c2">>), templates |-> Arr(<<>>)])
SetCoursePayloads == {PlainCourse, GapCourse, EmptyCourse, UntitledCourse}

TemplatePayloads ==
    {ContextTemplate(<<"t7">>, <<"content">>, 7, Obj(EmptyRecord)),
     Obj([id |-> Str(<<"t8">>), title |-> Str(<<"t">>), order |-> Num(0)])}

\* indices handed to the provider's callbacks, out of range ones too
Indices == (0 - 1)..MaxPages

\* the two stores before anything was dispatched
EditorIdle(store) ==
    [store |-> store,
     currentCourse |-> Null,
     state |-> initialState(createDefaultCourse),
     last |-> [type |-> "none", payload |-> Undef],
     before |-> Undef]

EditorFrame == UNCHANGED <<validators, mockErrors, now, calls, fieldCall, tIn, tOut, tPc>>

\* courseSlice.setCurrentCourse
setCurrentCourse ==
    /\ ctx.store = "slice"
    /\ \E course \in SliceCourses :
          ctx' = [ctx EXCEPT !.currentCourse = course,
                             !.last = [type |-> "setCurrentCourse", payload |-> course],
                             !.before = ctx.currentCourse]
    /\ EditorFrame

\* PageManager.handleDeletePage on one of the pages it shows, confirmed
handleDeletePage ==
    /\ ctx.store = "slice"
    /\ \E i \in 1..Len(ManagerPages(ctx.currentCourse)) :
          LET pageId == Get(ManagerPages(ctx.currentCourse)[i], "id")
          IN  ctx' = [ctx EXCEPT !.currentCourse = removePage(@, pageId),
                                 !.last = [type |-> "removePage", payload |-> pageId],
                                 !.before = ctx.currentCourse]
    /\ EditorFrame

\* PageManager.handleDrop of one shown page on another
handleDrop ==
    /\ ctx.store = "slice"
    /\ LET pages == ManagerPages(ctx.currentCourse)
       IN  \E d, t \in 1..Len(pages) :
              /\ Get(pages[d], "id") # Get(pages[t], "id")
              /\ LET pageIds == DroppedIds(pages, Get(pages[d], "id"), Get(pages[t], "id"))
                 IN  ctx' = [ctx EXCEPT
                               !.currentCourse = reorderPages(@, pageIds),
                               !.last = [type |-> "reorderPages", payload |-> Arr(pageIds)],
                               !.before = ctx.currentCourse]
    /\ EditorFrame

\* a callback of the provider dispatches
Dispatches(type, payload) ==
    ctx' = [ctx EXCEPT !.state = Dispatch(@, type, payload),
                       !.last = [type |-> type, payload |-> payload],
                       !.before = ctx.state]

setCourse ==
    /\ ctx.store = "context"
    /\ \E course \in SetCoursePayloads : Dispatches("SET_COURSE", course)
    /\ EditorFrame

addTemplate ==
    /\ ctx.store = "context"
    /\ Len(Get(ctx.state.course, "templates").v) < MaxPages
    /\ \E template \in TemplatePayloads : Dispatches("ADD_TEMPLATE", template)
    /\ EditorFrame

updateTemplate ==
    /\ ctx.store = "context"
    /\ \E index \in Indices, template \in TemplatePayloads :
          Dispatches("UPDATE_TEMPLATE", [index |-> index, template |-> template])
    /\ EditorFrame

\* deleteTemplate dispatches only while more than one template is left
deleteTemplate ==
    /\ ctx.store = "context"
    /\ \E index \in Indices :
          IF Len(Get(ctx.state.course, "templates").v) > 1
          THEN Dispatches("DELETE_TEMPLATE", index)
          ELSE ctx' = [ctx EXCEPT !.last = [type |-> "DELETE_TEMPLATE", payload |-> index],
                                  !.before = ctx.state]
    /\ EditorFrame

reorderTemplates ==
    /\ ctx.store = "context"
    /\ \E fromIndex \in Indices, toIndex \in Indices :
          Dispatches("REORDER_TEMPLATES", [fromIndex |-> fromIndex, toIndex |-> toIndex])
    /\ EditorFrame

setCurrentTemplate ==
    /\ ctx.store = "context"
    /\ \E index \in Indices : Dispatches("SET_CURRENT_TEMPLATE", index)
    /\ EditorFrame

resetCourse ==
    /\ ctx.store = "context"
    /\ Dispatches("RESET_COURSE", Undef)
    /\ EditorFrame

InitEditor ==
    /\ validators = DefaultValidators
    /\ mockErrors = <<>>
    /\ calls = [inv \in 1..1 |-> IdleCall]
    /\ now = 0
    /\ fieldCall = NoFieldCall
    /\ tIn = Undef
    /\ tOut = Undef
    /\ tPc = "idle"
    /\ ctx \in {EditorIdle(store) : store \in {"slice", "context"}}

NextEditor ==
    \/ setCurrentCourse
    \/ handleDeletePage
    \/ handleDrop
    \/ setCourse
    \/ addTemplate
    \/ updateTemplate
    \/ deleteTemplate
    \/ reorderTemplates
    \/ setCurrentTemplate
    \/ resetCourse

SpecEditor == InitEditor /\ [][NextEditor]_vars

---------------------------------------------------------------------------
(* Claims about the page lists                                               *)

\* the order fields of the list equal the array positions 0..n-1
OrdersArePositions(list) == \A i \in 1..Len(list) : Get(list[i], "order") = Num(i - 1)

\* the list, its order fields left aside
Unordered(list) == [i \in 1..Len(list) |-> Put(list[i], "order", Num(0))]

\* after is before without one entry, the others in their previous order
OnlyRemoved(before, after, position) ==
    Unordered(after) = Unordered(WithoutIndex(before, position - 1))

SlicePages(currentCourse) == Get(currentCourse, "pages").v
Templates(state) == Get(state.course, "templates").v

\* DELETE_TEMPLATE or REORDER_TEMPLATES was dispatched with indices in range
\* and, for a delete, more than one template
Effective ==
    /\ ctx.last.type \in {"DELETE_TEMPLATE", "REORDER_TEMPLATES"}
    /\ IF ctx.last.type = "DELETE_TEMPLATE"
       THEN /\ validateTemplateIndex(ctx.last.payload, Templates(ctx.before))
            /\ Len(Templates(ctx.before)) > 1
       ELSE /\ validateTemplateIndex(ctx.last.payload.fromIndex, Templates(ctx.before))
            /\ validateTemplateIndex(ctx.last.payload.toIndex, Templates(ctx.before))

\* C25: after a delete or reorder of pages in either store the order fields
\* of the remaining pages are their array positions 0..n-1; a delete removes
\* only the targeted page and keeps the others in their previous relative
\* order; DELETE_TEMPLATE leaves the whole state unchanged when the index is
\* out of range or only one template remains
C25_ResequencedAfterDeleteOrReorder ==
    /\ ctx.last.type \in {"removePage", "reorderPages"} =>
          OrdersArePositions(SlicePages(ctx.currentCourse))
    /\ ctx.last.type = "removePage" =>
          \E position \in 1..Len(SlicePages(ctx.before)) :
              /\ Get(SlicePages(ctx.before)[position], "id") = ctx.last.payload
              /\ OnlyRemoved(SlicePages(ctx.before), SlicePages(ctx.currentCourse), position)
    /\ Effective => OrdersArePositions(Templates(ctx.state))
    /\ (ctx.last.type = "DELETE_TEMPLATE" /\ Effective) =>
          OnlyRemoved(Templates(ctx.before), Templates(ctx.state), ctx.last.payload + 1)
    /\ (ctx.last.type = "DELETE_TEMPLATE" /\ ~Effective) => ctx.state = ctx.before

\* C25, with the target of a delete in courseSlice taken as an id: after a
\* delete or reorder of pages in either store the order fields of the
\* remaining pages are their array positions 0..n-1; removePage removes every
\* page that carries the targeted id, DELETE_TEMPLATE the template at the
\* targeted index, and both keep the others in their previous relative order;
\* DELETE_TEMPLATE leaves the whole state unchanged when the index is out of
\* range or only one template remains
C25_ResequencedRemovingById ==
    /\ ctx.last.type \in {"removePage", "reorderPages"} =>
          OrdersArePositions(SlicePages(ctx.currentCourse))
    /\ ctx.last.type = "removePage" =>
          Unordered(SlicePages(ctx.currentCourse))
              = Unordered(SelectSeq(SlicePages(ctx.before),
                                    LAMBDA p : Get(p, "id") # ctx.last.payload))
    /\ Effective => OrdersArePositions(Templates(ctx.state))
    /\ (ctx.last.type = "DELETE_TEMPLATE" /\ Effective) =>
          OnlyRemoved(Templates(ctx.before), Templates(ctx.state), ctx.last.payload + 1)
    /\ (ctx.last.type = "DELETE_TEMPLATE" /\ ~Effective) => ctx.state = ctx.before

\* a delete in courseSlice that took two pages of one id and left the third
\* at position 0 with order 0
C25_Witness ==
    /\ ctx.last.type = "removePage"
    /\ Len(SlicePages(ctx.before)) = 3
    /\ Len(SlicePages(ctx.currentCourse)) = 1
    /\ Get(SlicePages(ctx.before)[3], "order") = Num(2)
    /\ SlicePages(ctx.currentCourse)[1]
           = Put(SlicePages(ctx.before)[3], "order", Num(0))

\* C30: in every state reachable through SET_COURSE, ADD_TEMPLATE,
\* UPDATE_TEMPLATE, DELETE_TEMPLATE, REORDER_TEMPLATES, SET_CURRENT_TEMPLATE
\* and RESET_COURSE the templates list is non-empty and
\* editorState.currentTemplate is a valid index into it
C30_CurrentTemplateInRange ==
    ctx.store = "context" =>
        /\ Templates(ctx.state) # <<>>
        /\ validateTemplateIndex(ctx.state.editorState.currentTemplate, Templates(ctx.state))

\* saveCourse is waiting for its nested validation or for its save request
SavePending == ctx.caller = "save" /\ ctx.pc \in {"validating", "saving"}

\* saveCourse has fulfilled or rejected and nothing has been called since
SaveSettled == ctx.pc = "idle" /\ ctx.saved # "none"

\* C29: during saveCourse isLoading is true while the nested validation or
\* the save request is pending, and it is false once saveCourse has settled
C29_LoadingWhileSaving ==
    /\ SavePending => ctx.state.isLoading = TRUE
    /\ SaveSettled => ctx.state.isLoading = FALSE

---------------------------------------------------------------------------
(* useValidation (hooks/useValidation.ts): validate calls on the hook's own  *)
(* ValidationService, their continuations run as jobs of the microtask       *)
(* queue, first in first out                                                 *)

\* validate is called at most this many times
MaxCalls == 2

\* the courses validate is called with: one that passes, one with a
\* TemplateValidator error, one that makes TemplateValidator reject
HookCourses == {ValidCourse, NoTypeCourse, McqNoContentCourse}

\* the state useState starts with
HookState == [isValidating |-> FALSE, result |-> Null, lastValidated |-> Null]

\* what validateCourse returns for the flattened errors
ServiceResult(errors, time, randoms) ==
    [valid |-> Len(errors) = 0,
     errors |-> categorizeErrors(errors, [i \in 1..Len(errors) |-> time], randoms),
     timestamp |-> time]

\* the result the catch block builds
errorResult(time) ==
    [valid |-> FALSE,
     errors |-> <<[id |-> <<>>, field |-> <<"general">>, category |-> "schema",
                   message |-> <<"Validation service error">>, level |-> "error"]>>,
     timestamp |-> time]

\* a variant whose catch block throws the error on
validateResumes_rethrow(state, service, time) ==
    IF service.settled = "resolved"
    THEN [state |-> [isValidating |-> FALSE, result |-> service.value,
                     lastValidated |-> time],
          returned |-> Resolved(service.value)]
    ELSE [state |-> [state EXCEPT !.isValidating = FALSE],
          returned |-> RejectedWith(<<"Validation service error">>)]

\* validate after its await: the try block's setState and return, or the
\* catch block's
validateResumes(state, service, time) ==
    IF service.settled = "resolved"
    THEN [state |-> [isValidating |-> FALSE, result |-> service.value,
                     lastValidated |-> time],
          returned |-> Resolved(service.value)]
    ELSE [state |-> [isValidating |-> FALSE, result |-> errorResult(time),
                     lastValidated |-> time],
          returned |-> Resolved(errorResult(time))]

\* a queue that runs the job queued last
NextJob_last(queue) == Len(queue)

\* the microtask queue runs the job queued first
NextJob(queue) == 1

\* the jobs Promise.all queues for the promises validators.map returned, all
\* of them settled already: one per validator, in registration order
ElementJobs(inv) == [i \in 1..Len(validators) |-> [inv |-> inv, job |-> "element", i |-> i]]

\* a validate call: its argument, what the validators' promises settled to,
\* how many Promise.all has seen fulfilled, the promise of Promise.all, the
\* promise of validateCourse, the promise validate returned, and whether
\* another call was in flight when it was issued
HookCall(course, overlapped) ==
    [course |-> course,
     outcomes |-> [i \in 1..Len(validators) |-> Validate(validators[i], course)],
     fulfilled |-> 0,
     all |-> "pending",
     service |-> Unsettled,
     returned |-> Unsettled,
     overlapped |-> overlapped]

HookFrame == UNCHANGED <<validators, mockErrors, calls, fieldCall, tIn, tOut, tPc>>

InFlight(c) == c.returned.settled = "pending"

\* the effect that creates the ValidationService runs
useEffectRuns ==
    /\ ~ctx.service
    /\ ctx' = [ctx EXCEPT !.service = TRUE]
    /\ UNCHANGED now
    /\ HookFrame

\* validate(course) up to its await; without a service it throws
validate ==
    /\ Len(ctx.invocations) < MaxCalls
    /\ \E course \in HookCourses :
          LET inv == Len(ctx.invocations) + 1
              overlapped == \E k \in 1..Len(ctx.invocations) : InFlight(ctx.invocations[k])
          IN  IF ~ctx.service
              THEN ctx' = [ctx EXCEPT
                             !.invocations = Append(@,
                                 [HookCall(course, overlapped) EXCEPT
                                     !.returned = RejectedWith(
                                         <<"Validation service not initialized">>)]),
                             !.last = inv]
              ELSE ctx' = [ctx EXCEPT
                             !.state.isValidating = TRUE,
                             !.invocations = Append(@, HookCall(course, overlapped)),
                             !.queue = @ \o ElementJobs(inv),
                             !.last = 0]
    /\ UNCHANGED now
    /\ HookFrame

\* the queue with one job taken out
Dequeued(queue, n) == SubSeq(queue, 1, n - 1) \o SubSeq(queue, n + 1, Len(queue))

\* a reaction of Promise.all runs: the first rejection rejects its promise,
\* the last fulfilment fulfils it, and either queues the continuation of
\* validateCourse
ElementJobRuns ==
    /\ ctx.queue # <<>>
    /\ LET n == NextJob(ctx.queue)
           job == ctx.queue[n]
           c == ctx.invocations[job.inv]
           rest == Dequeued(ctx.queue, n)
           continuation == <<[inv |-> job.inv, job |-> "validateCourse", i |-> 0]>>
       IN  /\ job.job = "element"
           /\ IF c.all # "pending"
              THEN ctx' = [ctx EXCEPT !.queue = rest, !.last = 0]
              ELSE IF c.outcomes[job.i].threw
              THEN ctx' = [ctx EXCEPT !.invocations[job.inv].all = "rejected",
                                      !.queue = rest \o continuation,
                                      !.last = 0]
              ELSE IF c.fulfilled + 1 = Len(c.outcomes)
              THEN ctx' = [ctx EXCEPT !.invocations[job.inv].fulfilled = @ + 1,
                                      !.invocations[job.inv].all = "fulfilled",
                                      !.queue = rest \o continuation,
                                      !.last = 0]
              ELSE ctx' = [ctx EXCEPT !.invocations[job.inv].fulfilled = @ + 1,
                                      !.queue = rest,
                                      !.last = 0]
    /\ UNCHANGED now
    /\ HookFrame

\* validateCourse after its await: it returns the categorized errors or
\* throws what Promise.all was rejected with; the continuation of validate
\* is queued
ValidateCourseJobRuns ==
    /\ ctx.queue # <<>>
    /\ LET n == NextJob(ctx.queue)
           job == ctx.queue[n]
           c == ctx.invocations[job.inv]
           rest == Dequeued(ctx.queue, n)
           errors == Flatten(c.outcomes, Len(c.outcomes))
       IN  /\ job.job = "validateCourse"
           /\ \E randoms \in [1..Len(errors) -> 0..MaxRandom] :
                 ctx' = [ctx EXCEPT
                           !.invocations[job.inv].service =
                               IF c.all = "fulfilled"
                               THEN Resolved(ServiceResult(errors, now, randoms))
                               ELSE RejectedWith(<<"TypeError">>),
                           !.queue = rest \o <<[inv |-> job.inv, job |-> "validate", i |-> 0]>>,
                           !.last = 0]
    /\ UNCHANGED now
    /\ HookFrame

\* validate after its await
ValidateJobRuns ==
    /\ ctx.queue # <<>>
    /\ LET n == NextJob(ctx.queue)
           job == ctx.queue[n]
           end == validateResumes(ctx.state, ctx.invocations[job.inv].service, now)
       IN  /\ job.job = "validate"
           /\ ctx' = [ctx EXCEPT !.state = end.state,
                                 !.invocations[job.inv].returned = end.returned,
                                 !.queue = Dequeued(ctx.queue, n),
                                 !.last = job.inv]
    /\ UNCHANGED now
    /\ HookFrame

\* clearValidation(): the state goes back to what useState started with,
\* whatever is in flight
clearValidation ==
    /\ ctx' = [ctx EXCEPT !.state = HookState, !.last = 0]
    /\ UNCHANGED now
    /\ HookFrame

\* time passes
HookTick ==
    /\ now < MaxClock
    /\ now' = now + 1
    /\ ctx' = [ctx EXCEPT !.last = 0]
    /\ HookFrame

InitHook ==
    /\ validators = DefaultValidators
    /\ mockErrors = <<>>
    /\ calls = [inv \in 1..1 |-> IdleCall]
    /\ now = 0
    /\ fieldCall = NoFieldCall
    /\ tIn = Undef
    /\ tOut = Undef
    /\ tPc = "idle"
    /\ ctx = [service |-> FALSE, state |-> HookState, invocations |-> <<>>,
              queue |-> <<>>, last |-> 0]

NextHook ==
    \/ useEffectRuns
    \/ validate
    \/ ElementJobRuns
    \/ ValidateCourseJobRuns
    \/ ValidateJobRuns
    \/ clearValidation
    \/ HookTick

SpecHook == InitHook /\ [][NextHook]_vars

---------------------------------------------------------------------------
(* Claims about useValidation                                                *)

\* the validate call whose continuation has just run, 0 when none has
Completed == ctx.last

\* a validator's promise of the call was rejected
SomeValidatorRejected(c) == \E i \in 1..Len(c.outcomes) : c.outcomes[i].threw

\* the calls issued after the service was created
Served == {k \in 1..Len(ctx.invocations) : ctx.invocations[k].returned.settled # "rejected"}

\* C26: when an entity validator throws or rejects during validate(course),
\* validate still resolves, with valid false and exactly one error, of
\* category schema and level error; that result is the hook's result and
\* isValidating is false when the call has completed; a call issued once the
\* service exists never rejects
C26_ValidatorFailureBecomesOneError ==
    /\ ctx.service =>
          \A k \in 1..Len(ctx.invocations) :
              (ctx.invocations[k].returned.settled = "rejected") =>
                  ctx.invocations[k].service = Unsettled /\ ctx.invocations[k].all = "pending"
    /\ \A k \in 1..Len(ctx.invocations) :
          LET c == ctx.invocations[k]
          IN  (SomeValidatorRejected(c) /\ ctx.service /\ c.all # "pending"
                  /\ c.returned.settled # "pending") =>
                  /\ c.returned.settled = "resolved"
                  /\ c.returned.value.valid = FALSE
                  /\ Len(c.returned.value.errors) = 1
                  /\ c.returned.value.errors[1].category = "schema"
                  /\ c.returned.value.errors[1].level = "error"
                  /\ Completed = k =>
                        /\ ctx.state.result = c.returned.value
                        /\ ctx.state.isValidating = FALSE

\* a call on a course that makes TemplateValidator reject has completed
C26_Witness ==
    /\ Completed # 0
    /\ ctx.invocations[Completed].course = McqNoContentCourse
    /\ ctx.invocations[Completed].outcomes[2].threw
    /\ ctx.invocations[Completed].returned.settled = "resolved"
    /\ ctx.state.result.errors[1].message = <<"Validation service error">>

\* C27: isValidating is true whenever at least one validate call is in
\* flight and false when none is, also while two calls overlap; the hook's
\* result is null or the complete result of one call
C27_ValidatingWhileInFlight ==
    /\ ctx.state.isValidating
          <=> \E k \in 1..Len(ctx.invocations) : InFlight(ctx.invocations[k])
    /\ \/ ctx.state.result = Null
       \/ \E k \in 1..Len(ctx.invocations) :
             /\ ctx.invocations[k].returned.settled = "resolved"
             /\ ctx.state.result = ctx.invocations[k].returned.value

===========================================================================
